---- MODULE Spec2Model ----
(***************************************************************************)
(* Type-erased, name-indexed callable registry:                            *)
(* SimpleFunctionGroup (include/simple_modern_function_group.h) and        *)
(* ModernFunctionGroup (include/modern_function_group.h).                  *)
(*                                                                         *)
(* A group maps names to wrappers std::function<any(vector<any>)>.  The    *)
(* wrapper of SimpleFunctionGroup finds out at call time how to invoke the *)
(* callable, by trying a fixed menu of argument types; the wrapper of      *)
(* ModernFunctionGroup extracts each argument as the exact parameter type. *)
(***************************************************************************)
EXTENDS Integers, Sequences, FiniteSets, TLC

VARIABLES
    impl,        \* which class the group is: "simple" or "modern"
    functions_,  \* the map name -> registered callable (its wrapper)
    lastAdded,   \* history: name -> id of the callable of the last add(name, .), or "none"
    overwritten, \* history: has some add re-registered a name with another callable?
    function_implementations_, \* MultiModuleFunctionRegistry: function id -> implementations
    module_functions_,         \* MultiModuleFunctionRegistry: module name -> function ids
    registrations,             \* history: the register_function calls, in order
    functions_by_id_,  \* OptimizedFunctionGroup: function id -> registered callable
    name_to_id_,       \* OptimizedFunctionGroup: name -> function id
    proper,            \* history: has every add(id, name, .) used id = FUNC_ID(name)?
    groups,      \* FunctionRegistry: group type -> FunctionGroup pointer
    deletes,     \* history: FunctionGroup object -> number of times it was deleted
    handed,      \* history: the non-null groups passed to registerGroup
    destroyed,   \* has the FunctionRegistry been destroyed?
    functions0,  \* ConcreteFunctionGroup: name -> function without parameters
    functions1,  \* ConcreteFunctionGroup: name -> function with one parameter
    functions2,  \* ConcreteFunctionGroup: name -> function with two parameters
    statics,     \* the static local `result` of each example function
    functions,   \* EnhancedFunctionGroup: name -> EnhancedFunctionWrapper
    constraint,  \* which constrained group class the group is, or "none"
    implemented_functions_, \* the vector of a constrained group
    held,        \* the vector a caller got from function_names() and still holds
    pc,          \* "idle": the caller may start an operation; "returned": one just ended;
                 \* "packed": a value was packed into a std::any and is not yet extracted
    last         \* the operation that just ended, its outcome and the invocations it made

vars == <<impl, functions_, lastAdded, overwritten, held,
          function_implementations_, module_functions_, registrations,
          functions_by_id_, name_to_id_, proper,
          groups, deletes, handed, destroyed,
          functions0, functions1, functions2, statics,
          functions, constraint, implemented_functions_, pc, last>>

\* The state of a group and the caller's history of it; the state of the
\* multi-module registry and the history of its registrations.
groupVars == <<impl, functions_, lastAdded, overwritten, held>>
registryVars == <<function_implementations_, module_functions_, registrations>>

\* The state of the other classes: an OptimizedFunctionGroup, the legacy
\* FunctionRegistry, a ConcreteFunctionGroup with the static results of the
\* example functions, an EnhancedFunctionGroup (functions), a constrained
\* group.
optimizedVars == <<functions_by_id_, name_to_id_, proper>>
legacyVars == <<groups, deletes, handed, destroyed>>
concreteVars == <<functions0, functions1, functions2, statics>>
constrainedVars == <<constraint, implemented_functions_>>
laterVars == <<optimizedVars, legacyVars, concreteVars, functions, constrainedVars>>

\* The group types, in the order of the enumerators (the order of the keys
\* of groups).
GroupTypeOrder == <<"MATH_FUNCTIONS", "STRING_FUNCTIONS">>

\* The FunctionGroup objects a client allocates, and the null pointer.
GroupPointers == {"mathGroup", "stringGroup"}

NullGroup == "0"

\* The functions of the enhanced demo, by their number of parameters.
EnhancedFunctions ==
    <<"enhanced_add", "enhanced_multiply", "enhanced_power", "enhanced_sum_three",
      "enhanced_average_four">>

\* The example functions that keep their result in a static local.
ExampleFunctions ==
    {"add_func", "hello_world", "sqrt_func", "multiply_func", "add_ten", "power_func"}
    \cup {EnhancedFunctions[i] : i \in 1..5}

\* The other classes as their constructors leave them: empty maps, no
\* group object deleted, no static local initialized, no constrained group.
LaterInit ==
    /\ functions_by_id_ = <<>>
    /\ name_to_id_ = <<>>
    /\ proper = TRUE
    /\ groups = <<>>
    /\ deletes = [g \in GroupPointers |-> 0]
    /\ handed = {}
    /\ destroyed = FALSE
    /\ functions0 = <<>>
    /\ functions1 = <<>>
    /\ functions2 = <<>>
    /\ statics = [f \in ExampleFunctions |-> [init |-> FALSE, v |-> 0]]
    /\ functions = <<>>
    /\ constraint = "none"
    /\ implemented_functions_ = <<>>

(***************************************************************************)
(* Bounds of the model.                                                    *)
(***************************************************************************)
MaxArgs == 3     \* a call supplies 0 .. MaxArgs arguments
MaxInt == 4      \* the numbers packed into a std::any are -MaxInt .. MaxInt
MaxRegistrations == 3  \* register_function is called at most MaxRegistrations times

(***************************************************************************)
(* Values.  A value is [type, n, s]: n holds an int, or a double counted   *)
(* in quarters (2.5 is 10), s holds a string.  The empty std::any and the  *)
(* result of a void call are NoValue.                                      *)
(***************************************************************************)
IntVal(i) == [type |-> "int", n |-> i, s |-> ""]
DoubleVal(q) == [type |-> "double", n |-> q, s |-> ""]
StringVal(str) == [type |-> "string", n |-> 0, s |-> str]
BoolVal(b) == [type |-> "bool", n |-> IF b THEN 1 ELSE 0, s |-> ""]
NoValue == [type |-> "void", n |-> 0, s |-> ""]

\* The arguments a caller supplies: the int 2, the double 2.5, a std::string.
ArgValues == {IntVal(2), DoubleVal(10), StringVal("World")}

\* A wrapper looks at no argument after the second: the further arguments
\* of a call are the int 2.
MoreArgValues == {IntVal(2)}

RECURSIVE Extended(_, _)
Extended(lists, k) ==
    IF k <= 0 THEN lists
    ELSE lists \cup Extended({Append(l, v) : l \in lists, v \in MoreArgValues}, k - 1)

\* The argument lists of a call: none, one, two or up to MaxArgs arguments.
ArgLists ==
    {<<>>} \cup {<<v>> : v \in ArgValues}
           \cup Extended({<<v, w>> : v \in ArgValues, w \in ArgValues}, MaxArgs - 2)

Names == {"f", "g"}

\* The types a caller may request as ReturnType.
ReturnTypes == {"int", "string", "void"}

(***************************************************************************)
(* Exceptions and outcomes.                                                *)
(***************************************************************************)
NoException == [type |-> "", what |-> ""]
Returns(v) == [status |-> "ok", val |-> v, exc |-> NoException, has |-> FALSE]
Throws(t, w) == [status |-> "throw", val |-> NoValue, exc |-> [type |-> t, what |-> w], has |-> FALSE]
\* std::optional<ReturnType>: a value, or std::nullopt
Optional(v) == [status |-> "ok", val |-> v, exc |-> NoException, has |-> TRUE]
Nullopt == [status |-> "ok", val |-> NoValue, exc |-> NoException, has |-> FALSE]

(***************************************************************************)
(* Implicit conversions of C++, as std::is_invocable_v sees them and as    *)
(* the call func(val) performs them.                                       *)
(***************************************************************************)
Arithmetic == {"int", "double"}

\* Is an argument of type from accepted by a parameter of type to?
Convertible(from, to) ==
    \/ from = to
    \/ from \in Arithmetic /\ to \in Arithmetic

\* The value a parameter of type to receives from the argument v.
ConvertTo(v, to) ==
    IF v.type = to THEN v
    ELSE IF v.type = "int" /\ to = "double" THEN DoubleVal(v.n * 4)
    ELSE IF v.type = "double" /\ to = "int" THEN IntVal(v.n \div 4)
    ELSE v

\* std::to_string(double): "%f"
to_string(q) ==
    ToString(q \div 4) \o "." \o
    (CASE q % 4 = 0 -> "000000" [] q % 4 = 1 -> "250000"
       [] q % 4 = 2 -> "500000" [] OTHER -> "750000")

(***************************************************************************)
(* The callables registered in the model: those of the example groups,     *)
(* and two callables that raise an error when invoked.                     *)
(*   params: the real parameter types, ret: the real return type           *)
(***************************************************************************)
Callable(id, params, ret) == [id |-> id, params |-> params, ret |-> ret]

\* <climits>, 32-bit int
INT_MAX == 2147483647
INT_MIN == -INT_MAX - 1

\* std::sqrt of a perfect square up to 65536, in quarters
sqrt(n) == 4 * (CHOOSE r \in 0..256 : r * r = n)

Callables ==
    { Callable("add", <<"int", "int">>, "int"),
      Callable("square", <<"int">>, "int"),
      Callable("format_result", <<"double">>, "string"),
      Callable("greet", <<"string">>, "string"),
      Callable("repeat", <<"string", "int">>, "string"),
      Callable("hello_world", <<>>, "void"),
      Callable("cast_inside", <<"string">>, "string"),
      Callable("checked", <<"int">>, "int") }

RECURSIVE repeat(_, _)
repeat(str, count) == IF count <= 0 THEN "" ELSE str \o repeat(str, count - 1)

\* What the callable does with the arguments a it receives.
Body(c, a) ==
    CASE c.id = "add" -> Returns(IntVal(a[1].n + a[2].n))
      [] c.id = "square" -> Returns(IntVal(a[1].n * a[1].n))
      [] c.id = "format_result" -> Returns(StringVal("Result: " \o to_string(a[1].n)))
      [] c.id = "greet" -> Returns(StringVal("Hello, " \o a[1].s \o "!"))
      [] c.id = "repeat" -> Returns(StringVal(repeat(a[1].s, a[2].n)))
      [] c.id = "hello_world" -> Returns(NoValue)
      [] c.id = "cast_inside" -> Throws("bad_any_cast", "bad any_cast")
      [] c.id = "subtract" -> Returns(IntVal(a[1].n - a[2].n))
      [] c.id = "greet_lambda" -> Returns(StringVal("Hello, " \o a[1].s))
      [] c.id = "OptimizedMath::add" -> Returns(IntVal(a[1].n + a[2].n))
      [] c.id = "OptimizedMath::sqrt" -> Returns(DoubleVal(sqrt(a[1].n)))
      [] c.id = "DebugMath::add" ->
            IF a[1].n > 0 /\ a[2].n > 0 /\ a[1].n > INT_MAX - a[2].n
            THEN Throws("overflow_error", "Addition would overflow")
            ELSE IF a[1].n < 0 /\ a[2].n < 0 /\ a[1].n < INT_MIN - a[2].n
            THEN Throws("underflow_error", "Addition would underflow")
            ELSE Returns(IntVal(a[1].n + a[2].n))
      [] c.id = "DebugMath::square" ->
            IF a[1].n > 0 /\ a[1].n > INT_MAX \div a[1].n
            THEN Throws("overflow_error", "Square would overflow")
            ELSE IF a[1].n < 0 /\ a[1].n < -((INT_MAX) \div (-a[1].n))
            THEN Throws("overflow_error", "Square would overflow")
            ELSE Returns(IntVal(a[1].n * a[1].n))
      [] OTHER -> Throws("invalid_argument", "checked")

\* One invocation, as the log of an operation records it: the callable, the
\* arguments as the caller supplied them and as the parameters received them.
Invocation(c, supplied, received) ==
    [fn |-> c.id, supplied |-> supplied, received |-> received]

\* std::is_invocable_v<Func, T1, ..., Tk> for the argument types ts
is_invocable(c, ts) ==
    /\ Len(ts) = Len(c.params)
    /\ \A k \in 1..Len(ts) : Convertible(ts[k], c.params[k])

\* func(val...): the parameters receive the converted values, the body runs
Received(c, vals) == [k \in 1..Len(vals) |-> ConvertTo(vals[k], c.params[k])]

\* The result of a dispatch: the outcome and the invocations made, in order.
Dispatched(out, log) == [out |-> out, log |-> log]

(***************************************************************************)
(* SimpleFunctionGroup: the trial-and-error dispatch.                      *)
(***************************************************************************)
\* The types tried for one argument, and for both of two arguments: int,
\* double, std::string, const std::string& (extracted as std::string).
TypeMenu == <<"int", "double", "string", "string">>

\* The try blocks of call_with_one_arg / call_with_two_args from block i on:
\* a block is skipped when the callable is not invocable with its type, left
\* by catch (const std::bad_any_cast&) {} when an any_cast or the callable
\* throws bad_any_cast, and returns the callable's result otherwise.
RECURSIVE TryBlocks(_, _, _, _, _)
TryBlocks(c, args, i, log, failure) ==
    IF i > Len(TypeMenu) THEN Dispatched(Throws("runtime_error", failure), log)
    ELSE LET T == TypeMenu[i]
             ts == [k \in 1..Len(args) |-> T]
         IN  IF ~is_invocable(c, ts) \/ (\E k \in 1..Len(args) : args[k].type # T)
             THEN TryBlocks(c, args, i + 1, log, failure)
             ELSE LET received == Received(c, args)
                      r == Body(c, received)
                      log2 == Append(log, Invocation(c, args, received))
                  IN  IF r.status = "throw" /\ r.exc.type = "bad_any_cast"
                      THEN TryBlocks(c, args, i + 1, log2, failure)
                      ELSE Dispatched(r, log2)

call_with_one_arg(c, arg) ==
    TryBlocks(c, <<arg>>, 1, <<>>, "Cannot call function with provided argument type")

\* call_with_two_args that hands the arguments over in the reverse order
call_with_two_args_swapped(c, arg1, arg2) ==
    TryBlocks(c, <<arg2, arg1>>, 1, <<>>, "Cannot call function with provided argument types")

call_with_two_args(c, arg1, arg2) ==
    TryBlocks(c, <<arg1, arg2>>, 1, <<>>, "Cannot call function with provided argument types")

\* create_wrapper that ignores the arguments after the second
create_wrapper_truncating(c, args) ==
    IF Len(args) = 0
    THEN IF is_invocable(c, <<>>)
         THEN Dispatched(Body(c, <<>>), <<Invocation(c, <<>>, <<>>)>>)
         ELSE Dispatched(Throws("runtime_error", "Function not callable with 0 arguments"), <<>>)
    ELSE IF Len(args) = 1 THEN call_with_one_arg(c, args[1])
    ELSE call_with_two_args(c, args[1], args[2])

\* The wrapper create_wrapper builds around the callable c, applied to args.
create_wrapper(c, args) ==
    IF Len(args) = 0
    THEN IF is_invocable(c, <<>>)
         THEN Dispatched(Body(c, <<>>), <<Invocation(c, <<>>, <<>>)>>)
         ELSE Dispatched(Throws("runtime_error", "Function not callable with 0 arguments"), <<>>)
    ELSE IF Len(args) = 1 THEN call_with_one_arg(c, args[1])
    ELSE IF Len(args) = 2 THEN call_with_two_args(c, args[1], args[2])
    ELSE Dispatched(Throws("runtime_error",
                           "Functions with more than 2 arguments not yet supported"), <<>>)

(***************************************************************************)
(* ModernFunctionGroup: the arity and the parameter types come from        *)
(* function_traits; each argument is extracted as the parameter's type.    *)
(***************************************************************************)
call_with_indices(c, args) ==
    IF Len(args) # Len(c.params)
    THEN Dispatched(Throws("runtime_error",
                           "Function expects " \o ToString(Len(c.params)) \o " arguments"), <<>>)
    ELSE IF \E k \in 1..Len(args) : args[k].type # c.params[k]
    THEN Dispatched(Throws("bad_any_cast", "bad any_cast"), <<>>)
    ELSE Dispatched(Body(c, args), <<Invocation(c, args, args)>>)

\* it->second(arg_vector): the stored wrapper of the group's class
Wrapper(kind, c, args) ==
    IF kind = "simple" THEN create_wrapper(c, args) ELSE call_with_indices(c, args)

(***************************************************************************)
(* The operations of a group (the same code in both classes).  fs is the   *)
(* map functions_; an operation yields its outcome, the invocations it     *)
(* made and the map it leaves.                                             *)
(***************************************************************************)
Result(out, log, fs) == [out |-> out, log |-> log, fs |-> fs]

EmptyMap == [n \in {} |-> Callable("", <<>>, "void")]

\* add by functions_.insert({name, wrapper}): an existing entry is kept
add_insert(fs, name, func) ==
    [n \in DOMAIN fs \cup {name} |-> IF n \in DOMAIN fs THEN fs[n] ELSE func]

\* functions_[name] = wrapper of func
add(fs, name, func) ==
    [n \in DOMAIN fs \cup {name} |-> IF n = name THEN func ELSE fs[n]]

\* has_function that answers whether the map holds any entry
has_function_any(fs, name) == DOMAIN fs # {}

\* functions_.find(name) != functions_.end()
has_function(fs, name) == name \in DOMAIN fs

\* The keys of the std::map, in its iteration order.
NameOrder == <<"f", "g">>

\* function_names that lists every name the group ever looked at
function_names_all(fs) == NameOrder

function_names(fs) == SelectSeq(NameOrder, LAMBDA n : n \in DOMAIN fs)

\* call that answers an empty std::any for a name it does not find
call_absent_empty(kind, fs, name, args) ==
    IF name \notin DOMAIN fs
    THEN Result(Returns(NoValue), <<>>, fs)
    ELSE LET r == Wrapper(kind, fs[name], args)
         IN  Result(r.out, r.log, fs)

\* call that drops the entry whose wrapper threw
call_erasing(kind, fs, name, args) ==
    IF name \notin DOMAIN fs
    THEN Result(Throws("runtime_error", "Function not found: " \o name), <<>>, fs)
    ELSE LET r == Wrapper(kind, fs[name], args)
         IN  Result(r.out, r.log,
                    IF r.out.status = "throw"
                    THEN [n \in DOMAIN fs \ {name} |-> fs[n]] ELSE fs)

call(kind, fs, name, args) ==
    IF name \notin DOMAIN fs
    THEN Result(Throws("runtime_error", "Function not found: " \o name), <<>>, fs)
    ELSE LET r == Wrapper(kind, fs[name], args)
         IN  Result(r.out, r.log, fs)

\* a cast that hands the value over without comparing the types
any_cast_unchecked(T, v) == Returns(v)

\* std::any_cast<T>(result)
any_cast(T, v) ==
    IF v.type = T THEN Returns(v) ELSE Throws("bad_any_cast", "bad any_cast")

\* call_as that answers a value-initialised ReturnType for an empty result
call_as_defaulting(kind, fs, T, name, args) ==
    LET r == call(kind, fs, name, args)
    IN  IF r.out.status = "throw" THEN r
        ELSE IF T = "void" THEN Result(Returns(NoValue), r.log, r.fs)
        ELSE IF r.out.val = NoValue
        THEN Result(Returns(IF T = "int" THEN IntVal(0) ELSE StringVal("")), r.log, r.fs)
        ELSE Result(any_cast(T, r.out.val), r.log, r.fs)

call_as(kind, fs, T, name, args) ==
    LET r == call(kind, fs, name, args)
    IN  IF r.out.status = "throw" THEN r
        ELSE IF T = "void" THEN Result(Returns(NoValue), r.log, r.fs)
        ELSE Result(any_cast(T, r.out.val), r.log, r.fs)

try_call(kind, fs, T, name, args) ==
    LET r == call(kind, fs, name, args)
    IN  IF r.out.status = "throw" THEN Result(Nullopt, r.log, r.fs)
        ELSE IF T = "void" THEN Result(Nullopt, r.log, r.fs)
        ELSE IF any_cast(T, r.out.val).status = "throw" THEN Result(Nullopt, r.log, r.fs)
        ELSE Result(Optional(r.out.val), r.log, r.fs)

(***************************************************************************)
(* The state machine: a caller performs one operation after the other on   *)
(* one group.                                                              *)
(***************************************************************************)
\* The record of an operation: what was asked, what came back, the
\* invocations made, and the map before the operation.
Operation(op, name, T, args, fn, r, before) ==
    [op |-> op, name |-> name, rtype |-> T, args |-> args, fn |-> fn,
     out |-> r.out, log |-> r.log, before |-> before]

\* The vector function_names() returned, with the names the adds before it
\* had registered; NotHeld before the first function_names().
Held(names, registered) == [taken |-> TRUE, names |-> names, registered |-> registered]
NotHeld == [taken |-> FALSE, names |-> <<>>, registered |-> {}]

\* The two maps of a registry nobody registered with.
NoImplementations == [id \in {} |-> <<>>]
NoModules == [m \in {} |-> <<>>]

NoOperation ==
    Operation("none", "", "", <<>>, "", Result(Nullopt, <<>>, EmptyMap), EmptyMap)

Init ==
    /\ impl \in {"simple", "modern"}
    /\ functions_ = EmptyMap
    /\ lastAdded = [n \in Names |-> "none"]
    /\ overwritten = FALSE
    /\ held = NotHeld
    /\ function_implementations_ = NoImplementations
    /\ module_functions_ = NoModules
    /\ registrations = <<>>
    /\ LaterInit
    /\ pc = "idle"
    /\ last = NoOperation

Add(name, func) ==
    /\ pc = "idle"
    /\ functions_' = add(functions_, name, func)
    /\ lastAdded' = [lastAdded EXCEPT ![name] = func.id]
    /\ overwritten' = (overwritten \/ lastAdded[name] \notin {"none", func.id})
    /\ last' = Operation("add", name, "", <<>>, func.id,
                         Result(Returns(NoValue), <<>>, functions_), functions_)
    /\ pc' = "returned"
    /\ UNCHANGED <<impl, held, registryVars, laterVars>>

Call(name, args) ==
    /\ pc = "idle"
    /\ LET r == call(impl, functions_, name, args)
       IN  /\ functions_' = r.fs
           /\ last' = Operation("call", name, "", args, "", r, functions_)
    /\ pc' = "returned"
    /\ UNCHANGED <<impl, lastAdded, overwritten, held, registryVars, laterVars>>

CallAs(T, name, args) ==
    /\ pc = "idle"
    /\ LET r == call_as(impl, functions_, T, name, args)
       IN  /\ functions_' = r.fs
           /\ last' = Operation("call_as", name, T, args, "", r, functions_)
    /\ pc' = "returned"
    /\ UNCHANGED <<impl, lastAdded, overwritten, held, registryVars, laterVars>>

TryCall(T, name, args) ==
    /\ pc = "idle"
    /\ LET r == try_call(impl, functions_, T, name, args)
       IN  /\ functions_' = r.fs
           /\ last' = Operation("try_call", name, T, args, "", r, functions_)
    /\ pc' = "returned"
    /\ UNCHANGED <<impl, lastAdded, overwritten, held, registryVars, laterVars>>

HasFunction(name) ==
    /\ pc = "idle"
    /\ last' = Operation("has_function", name, "", <<>>, "",
                         Result(Returns(BoolVal(has_function(functions_, name))),
                                <<>>, functions_), functions_)
    /\ pc' = "returned"
    /\ UNCHANGED <<groupVars, registryVars, laterVars>>

\* function_names(): the caller keeps the vector it returns
FunctionNames ==
    /\ pc = "idle"
    /\ held' = Held(function_names(functions_), {n \in Names : lastAdded[n] # "none"})
    /\ last' = Operation("function_names", "", "", <<>>, "",
                         Result(Returns(NoValue), <<>>, functions_), functions_)
    /\ pc' = "returned"
    /\ UNCHANGED <<impl, functions_, lastAdded, overwritten, registryVars, laterVars>>

\* The caller has the result and goes on.
Return ==
    /\ pc = "returned"
    /\ pc' = "idle"
    /\ last' = NoOperation
    /\ UNCHANGED <<groupVars, registryVars, laterVars>>

Next ==
    \/ \E name \in Names, func \in Callables : Add(name, func)
    \/ \E name \in Names, args \in ArgLists : Call(name, args)
    \/ \E T \in ReturnTypes, name \in Names, args \in ArgLists : CallAs(T, name, args)
    \/ \E T \in ReturnTypes, name \in Names, args \in ArgLists : TryCall(T, name, args)
    \/ \E name \in Names : HasFunction(name)
    \/ Return

Spec == Init /\ [][Next]_vars

(***************************************************************************)
(* The documented usage: a group with "add" and "greet", called with the   *)
(* arguments of the demo program.                                          *)
(***************************************************************************)
DemoNames == {"add", "greet"}

DemoCallables ==
    { Callable("add", <<"int", "int">>, "int"),
      Callable("subtract", <<"int", "int">>, "int"),
      Callable("greet_lambda", <<"string">>, "string"),
      Callable("greet", <<"string">>, "string") }

DemoArgValues == {IntVal(15), IntVal(25), StringVal("World")}

DemoArgLists ==
    {<<>>} \cup {<<v>> : v \in DemoArgValues}
           \cup {<<v, w>> : v \in DemoArgValues, w \in DemoArgValues}

InitDemo ==
    /\ impl \in {"simple", "modern"}
    /\ functions_ = EmptyMap
    /\ lastAdded = [n \in DemoNames |-> "none"]
    /\ overwritten = FALSE
    /\ held = NotHeld
    /\ function_implementations_ = NoImplementations
    /\ module_functions_ = NoModules
    /\ registrations = <<>>
    /\ LaterInit
    /\ pc = "idle"
    /\ last = NoOperation

NextDemo ==
    \/ \E name \in DemoNames, func \in DemoCallables : Add(name, func)
    \/ \E T \in {"int", "string"}, name \in DemoNames, args \in DemoArgLists :
          CallAs(T, name, args)
    \/ Return

SpecDemo == InitDemo /\ [][NextDemo]_vars

(***************************************************************************)
(* Packing an argument into a std::any, as call does, and extracting it,   *)
(* as call_as does with the result.                                        *)
(***************************************************************************)
\* A string literal, as the caller writes it: an array of char.
LiteralVal(str) == [type |-> "char[]", n |-> 0, s |-> str]

\* std::decay_t<T>: the type of the value a std::any holds for an argument
decay(t) == IF t = "char[]" THEN "const char*" ELSE t

\* packing that promotes a bool to int
pack_promoting(v) ==
    [type |-> IF v.type = "bool" THEN "int" ELSE decay(v.type), n |-> v.n, s |-> v.s]

\* arg_vector.emplace_back(std::forward<Args>(args)): a std::any of the value
pack(v) == [type |-> decay(v.type), n |-> v.n, s |-> v.s]

\* The values a caller packs, and the types it extracts.
PackValues ==
    {IntVal(i) : i \in -MaxInt..MaxInt} \cup {DoubleVal(q) : q \in -MaxInt..MaxInt}
        \cup {StringVal(str) : str \in {"", "World", "Hello, World"}}
        \cup {BoolVal(b) : b \in BOOLEAN} \cup {LiteralVal("World")}

SupportedTypes == {"int", "double", "string", "bool"}

Pack(v) ==
    /\ pc = "idle"
    /\ last' = Operation("pack", "", "", <<v>>, "",
                         Result(Returns(pack(v)), <<>>, functions_), functions_)
    /\ pc' = "packed"
    /\ UNCHANGED <<groupVars, registryVars, laterVars>>

\* std::any_cast<T> of the std::any just packed
Unpack(T) ==
    /\ pc = "packed"
    /\ last' = Operation("any_cast", "", T, last.args, "",
                         Result(any_cast(T, last.out.val), <<>>, functions_), functions_)
    /\ pc' = "returned"
    /\ UNCHANGED <<groupVars, registryVars, laterVars>>

NextRoundTrip ==
    \/ \E v \in PackValues : Pack(v)
    \/ \E T \in SupportedTypes : Unpack(T)
    \/ Return

SpecRoundTrip == Init /\ [][NextRoundTrip]_vars

\* A caller that registers callables, lists the names and keeps the lists.
NextNames ==
    \/ \E name \in Names, func \in Callables : Add(name, func)
    \/ \E name \in Names : HasFunction(name)
    \/ FunctionNames
    \/ Return

SpecNames == Init /\ [][NextNames]_vars

(***************************************************************************)
(* MultiModuleFunctionRegistry: several modules register implementations   *)
(* of the same function id; a caller names the module whose implementation *)
(* it wants, or takes the first one that works.                            *)
(***************************************************************************)
Modules == {"OptimizedMath", "DebugMath"}

\* StandardFunctionId
FunctionIds == {"ADD", "SQUARE"}

\* The callables each module registers.
ModuleCallables ==
    [ OptimizedMath |-> { Callable("OptimizedMath::add", <<"int", "int">>, "int"),
                          Callable("OptimizedMath::sqrt", <<"int">>, "double") },
      DebugMath |-> { Callable("DebugMath::add", <<"int", "int">>, "int"),
                      Callable("DebugMath::square", <<"int">>, "int") } ]

\* The arguments and the return types of the registry's callers.
RegistryArgLists ==
    { <<IntVal(4)>>, <<IntVal(65536)>>, <<IntVal(4), IntVal(4)>>, <<StringVal("World")>> }

RegistryReturnTypes == {"int", "double"}

FunctionImplementation(module_name, function) ==
    [module_name |-> module_name, function |-> function]

\* One call of register_function, as the history keeps it.
Registration(module_name, func_id, func) ==
    [module |-> module_name, id |-> func_id, fn |-> func]

\* The try blocks of the wrapper of register_function for the types of menu,
\* from block i on.
RECURSIVE RegistryBlocks(_, _, _, _, _)
RegistryBlocks(c, args, menu, i, log) ==
    IF i > Len(menu)
    THEN Dispatched(Throws("runtime_error",
                           "Cannot call function with provided argument types"), log)
    ELSE LET T == menu[i]
             ts == [k \in 1..Len(args) |-> T]
         IN  IF ~is_invocable(c, ts) \/ (\E k \in 1..Len(args) : args[k].type # T)
             THEN RegistryBlocks(c, args, menu, i + 1, log)
             ELSE LET received == Received(c, args)
                      r == Body(c, received)
                      log2 == Append(log, Invocation(c, args, received))
                  IN  IF r.status = "throw" /\ r.exc.type = "bad_any_cast"
                      THEN RegistryBlocks(c, args, menu, i + 1, log2)
                      ELSE Dispatched(r, log2)

\* The wrapper register_function builds around the callable c, applied to
\* args: no argument; one int or one std::string; two ints.
wrapper(c, args) ==
    IF Len(args) = 0 /\ is_invocable(c, <<>>)
    THEN Dispatched(Body(c, <<>>), <<Invocation(c, <<>>, <<>>)>>)
    ELSE IF Len(args) = 1 THEN RegistryBlocks(c, args, <<"int", "string">>, 1, <<>>)
    ELSE IF Len(args) = 2 THEN RegistryBlocks(c, args, <<"int">>, 1, <<>>)
    ELSE Dispatched(Throws("runtime_error",
                           "Cannot call function with provided argument types"), <<>>)

\* register_function that leaves module_functions_ alone
register_function_untracked(fi, mf, module_name, func_id, func) ==
    [ fi |-> [id \in DOMAIN fi \cup {func_id} |->
                 IF id = func_id
                 THEN Append(IF id \in DOMAIN fi THEN fi[id] ELSE <<>>,
                             FunctionImplementation(module_name, func))
                 ELSE fi[id]],
      mf |-> mf ]

\* function_implementations_[func_id].push_back(impl),
\* module_functions_[module_name].push_back(func_id)
register_function(fi, mf, module_name, func_id, func) ==
    [ fi |-> [id \in DOMAIN fi \cup {func_id} |->
                 IF id = func_id
                 THEN Append(IF id \in DOMAIN fi THEN fi[id] ELSE <<>>,
                             FunctionImplementation(module_name, func))
                 ELSE fi[id]],
      mf |-> [m \in DOMAIN mf \cup {module_name} |->
                 IF m = module_name
                 THEN Append(IF m \in DOMAIN mf THEN mf[m] ELSE <<>>, func_id)
                 ELSE mf[m]] ]

\* The body of the try block of call_function and call_function_any:
\* impl->function(arg_vector), then the result as std::optional<ReturnType>;
\* caught tells that an exception left the block.
Attempt(c, R, args) ==
    LET r == wrapper(c, args)
    IN  IF r.out.status = "throw" THEN [caught |-> TRUE, out |-> Nullopt, log |-> r.log]
        ELSE IF R = "void" THEN [caught |-> FALSE, out |-> Nullopt, log |-> r.log]
        ELSE IF any_cast(R, r.out.val).status = "throw"
        THEN [caught |-> TRUE, out |-> Nullopt, log |-> r.log]
        ELSE [caught |-> FALSE, out |-> Optional(r.out.val), log |-> r.log]

\* The position in impls of the first implementation of the module, or 0.
RECURSIVE Find(_, _, _)
Find(impls, module_name, i) ==
    IF i > Len(impls) THEN 0
    ELSE IF impls[i].module_name = module_name THEN i
    ELSE Find(impls, module_name, i + 1)

\* call_function that takes the function id's first implementation when
\* the module is among its providers
call_function_first(fi, module_name, func_id, R, args) ==
    IF func_id \notin DOMAIN fi THEN Dispatched(Nullopt, <<>>)
    ELSE LET i == Find(fi[func_id], module_name, 1)
         IN  IF i = 0 THEN Dispatched(Nullopt, <<>>)
             ELSE LET a == Attempt(fi[func_id][1].function, R, args)
                  IN  Dispatched(a.out, a.log)

\* call_function that falls back to the function id's first implementation
\* when the module has none
call_function_fallback(fi, module_name, func_id, R, args) ==
    IF func_id \notin DOMAIN fi THEN Dispatched(Nullopt, <<>>)
    ELSE LET i == Find(fi[func_id], module_name, 1)
             a == Attempt(fi[func_id][IF i = 0 THEN 1 ELSE i].function, R, args)
         IN  Dispatched(a.out, a.log)

call_function(fi, module_name, func_id, R, args) ==
    IF func_id \notin DOMAIN fi THEN Dispatched(Nullopt, <<>>)
    ELSE LET i == Find(fi[func_id], module_name, 1)
         IN  IF i = 0 THEN Dispatched(Nullopt, <<>>)
             ELSE LET a == Attempt(fi[func_id][i].function, R, args)
                  IN  Dispatched(a.out, a.log)

\* The loop of call_function_any over impls from position i on.
RECURSIVE TryEach(_, _, _, _, _)
TryEach(impls, i, R, args, log) ==
    IF i > Len(impls) THEN Dispatched(Nullopt, log)
    ELSE LET a == Attempt(impls[i].function, R, args)
         IN  IF a.caught THEN TryEach(impls, i + 1, R, args, log \o a.log)
             ELSE Dispatched(a.out, log \o a.log)

\* call_function_any that stops at the first implementation, whatever it does
call_function_any_once(fi, func_id, R, args) ==
    IF func_id \notin DOMAIN fi \/ fi[func_id] = <<>> THEN Dispatched(Nullopt, <<>>)
    ELSE LET a == Attempt(fi[func_id][1].function, R, args)
         IN  Dispatched(a.out, a.log)

call_function_any(fi, func_id, R, args) ==
    IF func_id \notin DOMAIN fi \/ fi[func_id] = <<>> THEN Dispatched(Nullopt, <<>>)
    ELSE TryEach(fi[func_id], 1, R, args, <<>>)

\* The record of an operation on the registry.
RegistryOperation(op, module_name, func_id, R, args, r) ==
    [op |-> op, module |-> module_name, id |-> func_id, rtype |-> R, args |-> args,
     out |-> r.out, log |-> r.log]

Register(module_name, func_id, func) ==
    /\ pc = "idle"
    /\ Len(registrations) < MaxRegistrations
    /\ LET r == register_function(function_implementations_, module_functions_,
                                  module_name, func_id, func)
       IN  /\ function_implementations_' = r.fi
           /\ module_functions_' = r.mf
    /\ registrations' = Append(registrations, Registration(module_name, func_id, func))
    /\ last' = RegistryOperation("register_function", module_name, func_id, "", <<>>,
                                 Dispatched(Returns(NoValue), <<>>))
    /\ pc' = "returned"
    /\ UNCHANGED <<groupVars, laterVars>>

CallFunction(module_name, func_id, R, args) ==
    /\ pc = "idle"
    /\ last' = RegistryOperation("call_function", module_name, func_id, R, args,
                                 call_function(function_implementations_,
                                               module_name, func_id, R, args))
    /\ pc' = "returned"
    /\ UNCHANGED <<groupVars, registryVars, laterVars>>

CallFunctionAny(func_id, R, args) ==
    /\ pc = "idle"
    /\ last' = RegistryOperation("call_function_any", "", func_id, R, args,
                                 call_function_any(function_implementations_,
                                                   func_id, R, args))
    /\ pc' = "returned"
    /\ UNCHANGED <<groupVars, registryVars, laterVars>>

NextRegistry ==
    \/ \E m \in Modules, id \in FunctionIds :
          \E func \in ModuleCallables[m] : Register(m, id, func)
    \/ \E m \in Modules, id \in FunctionIds, R \in RegistryReturnTypes :
          \E args \in RegistryArgLists : CallFunction(m, id, R, args)
    \/ \E id \in FunctionIds, R \in RegistryReturnTypes :
          \E args \in RegistryArgLists : CallFunctionAny(id, R, args)
    \/ Return

\* The registry of a program that uses no group.
InitRegistry == Init /\ impl = "simple"

SpecRegistry == InitRegistry /\ [][NextRegistry]_vars

(***************************************************************************)
(* The queries of MultiModuleFunctionRegistry about who provides what.     *)
(***************************************************************************)
get_function_providers(fi, func_id) ==
    IF func_id \in DOMAIN fi
    THEN [i \in 1..Len(fi[func_id]) |-> fi[func_id][i].module_name]
    ELSE <<>>

get_module_functions(mf, module_name) ==
    IF module_name \in DOMAIN mf THEN mf[module_name] ELSE <<>>

\* The keys of module_functions_, in the order of the std::map.
get_all_modules(mf) ==
    LET ordered == <<"DebugMath", "OptimizedMath">>
        RECURSIVE Keys(_)
        Keys(i) == IF i > Len(ordered) THEN <<>>
                   ELSE IF ordered[i] \in DOMAIN mf THEN <<ordered[i]>> \o Keys(i + 1)
                   ELSE Keys(i + 1)
    IN  Keys(1)

module_has_function(fi, module_name, func_id) ==
    IF func_id \notin DOMAIN fi THEN FALSE
    ELSE \E i \in 1..Len(fi[func_id]) : fi[func_id][i].module_name = module_name

\* A query changes nothing; last keeps what was asked and the answer.
GetFunctionProviders(func_id) ==
    /\ pc = "idle"
    /\ last' = [op |-> "get_function_providers", module |-> "", id |-> func_id,
                result |-> get_function_providers(function_implementations_, func_id)]
    /\ pc' = "returned"
    /\ UNCHANGED <<groupVars, registryVars, laterVars>>

GetModuleFunctions(module_name) ==
    /\ pc = "idle"
    /\ last' = [op |-> "get_module_functions", module |-> module_name, id |-> "",
                result |-> get_module_functions(module_functions_, module_name)]
    /\ pc' = "returned"
    /\ UNCHANGED <<groupVars, registryVars, laterVars>>

GetAllModules ==
    /\ pc = "idle"
    /\ last' = [op |-> "get_all_modules", module |-> "", id |-> "",
                result |-> get_all_modules(module_functions_)]
    /\ pc' = "returned"
    /\ UNCHANGED <<groupVars, registryVars, laterVars>>

ModuleHasFunction(module_name, func_id) ==
    /\ pc = "idle"
    /\ last' = [op |-> "module_has_function", module |-> module_name, id |-> func_id,
                result |-> module_has_function(function_implementations_,
                                               module_name, func_id)]
    /\ pc' = "returned"
    /\ UNCHANGED <<groupVars, registryVars, laterVars>>

NextTracking ==
    \/ \E m \in Modules, id \in FunctionIds :
          \E func \in ModuleCallables[m] : Register(m, id, func)
    \/ \E id \in FunctionIds : GetFunctionProviders(id)
    \/ \E m \in Modules : GetModuleFunctions(m)
    \/ GetAllModules
    \/ \E m \in Modules, id \in FunctionIds : ModuleHasFunction(m, id)
    \/ Return

SpecTracking == InitRegistry /\ [][NextTracking]_vars

(***************************************************************************)
(* OptimizedFunctionGroup: the wrappers are stored by function id, and a   *)
(* second map leads from the name to the id.                               *)
(***************************************************************************)
OptimizedNames == {"add", "subtract"}

OptimizedCallables ==
    { Callable("add", <<"int", "int">>, "int"),
      Callable("subtract", <<"int", "int">>, "int") }

OptimizedArgLists == { <<IntVal(10), IntVal(20)>>, <<IntVal(10)>> }

\* FUNC_ID(name), the hash of hash_string (5381, times 33 plus each char),
\* as a decimal numeral.
hash_string(name) ==
    CASE name = "add" -> "193486030"
      [] name = "subtract" -> "7572940974490733"
      [] OTHER -> "5381"

\* std::hash<std::string>{}(name), as the library of the build computes it.
std_hash(name) ==
    CASE name = "add" -> "14174029044941069015"
      [] name = "subtract" -> "3991525314161532142"
      [] OTHER -> "6142509188972423790"

\* The try blocks of call_with_one_arg / call_with_two_args of the class
\* for the types of menu, from block i on.
RECURSIVE OptimizedBlocks(_, _, _, _, _, _)
OptimizedBlocks(c, args, menu, i, log, failure) ==
    IF i > Len(menu) THEN Dispatched(Throws("runtime_error", failure), log)
    ELSE LET T == menu[i]
             ts == [k \in 1..Len(args) |-> T]
         IN  IF ~is_invocable(c, ts) \/ (\E k \in 1..Len(args) : args[k].type # T)
             THEN OptimizedBlocks(c, args, menu, i + 1, log, failure)
             ELSE LET received == Received(c, args)
                      r == Body(c, received)
                      log2 == Append(log, Invocation(c, args, received))
                  IN  IF r.status = "throw" /\ r.exc.type = "bad_any_cast"
                      THEN OptimizedBlocks(c, args, menu, i + 1, log2, failure)
                      ELSE Dispatched(r, log2)

\* The wrapper OptimizedFunctionGroup::create_wrapper builds around c.
optimized_wrapper(c, args) ==
    IF Len(args) = 0
    THEN IF is_invocable(c, <<>>)
         THEN Dispatched(Body(c, <<>>), <<Invocation(c, <<>>, <<>>)>>)
         ELSE Dispatched(Throws("runtime_error", "Function not callable with 0 arguments"), <<>>)
    ELSE IF Len(args) <= 2
    THEN OptimizedBlocks(c, args, <<"int", "double", "string">>, 1, <<>>,
                         IF Len(args) = 1
                         THEN "Cannot call function with provided argument type"
                         ELSE "Cannot call function with provided argument types")
    ELSE Dispatched(Throws("runtime_error",
                           "Functions with more than 2 arguments not yet supported"), <<>>)

\* add(id, name, func): functions_by_id_[id] = wrapper; name_to_id_[name] = id
add_by_id(fb, ni, id, name, func) ==
    [ fb |-> [i \in DOMAIN fb \cup {id} |-> IF i = id THEN func ELSE fb[i]],
      ni |-> [n \in DOMAIN ni \cup {name} |-> IF n = name THEN id ELSE ni[n]] ]

\* call(id, args...)
call_by_id(fb, id, args) ==
    IF id \notin DOMAIN fb
    THEN Dispatched(Throws("runtime_error", "Function not found (ID: " \o id \o ")"), <<>>)
    ELSE optimized_wrapper(fb[id], args)

\* call(name, args...)
call_by_name(fb, ni, name, args) ==
    IF name \notin DOMAIN ni
    THEN Dispatched(Throws("runtime_error", "Function not found: " \o name), <<>>)
    ELSE call_by_id(fb, ni[name], args)

\* call_as<ReturnType> of the result r of call
optimized_call_as(T, r) ==
    IF r.out.status = "throw" THEN r
    ELSE IF T = "void" THEN Dispatched(Returns(NoValue), r.log)
    ELSE Dispatched(any_cast(T, r.out.val), r.log)

\* In last, name or id is "" when the operation takes none.  lastAdded
\* keeps the callable of the last add of each name.
AddById(id, name, func) ==
    /\ pc = "idle"
    /\ LET r == add_by_id(functions_by_id_, name_to_id_, id, name, func)
       IN  /\ functions_by_id_' = r.fb
           /\ name_to_id_' = r.ni
    /\ proper' = (proper /\ id = hash_string(name))
    /\ lastAdded' = [n \in DOMAIN lastAdded \cup {name} |->
                        IF n = name THEN func.id ELSE lastAdded[n]]
    /\ last' = [op |-> "add(id)", name |-> name, id |-> id, rtype |-> "", args |-> <<>>,
                out |-> Returns(NoValue), log |-> <<>>]
    /\ pc' = "returned"
    /\ UNCHANGED <<impl, functions_, overwritten, held, registryVars,
                   legacyVars, concreteVars, functions, constrainedVars>>

\* add(name, func): id = std::hash<std::string>{}(name); add(id, name, func)
AddByName(name, func) ==
    /\ pc = "idle"
    /\ LET r == add_by_id(functions_by_id_, name_to_id_, std_hash(name), name, func)
       IN  /\ functions_by_id_' = r.fb
           /\ name_to_id_' = r.ni
    /\ lastAdded' = [n \in DOMAIN lastAdded \cup {name} |->
                        IF n = name THEN func.id ELSE lastAdded[n]]
    /\ last' = [op |-> "add(name)", name |-> name, id |-> "", rtype |-> "", args |-> <<>>,
                out |-> Returns(NoValue), log |-> <<>>]
    /\ pc' = "returned"
    /\ UNCHANGED <<impl, functions_, overwritten, held, registryVars, proper,
                   legacyVars, concreteVars, functions, constrainedVars>>

CallByName(name, args) ==
    /\ pc = "idle"
    /\ LET r == call_by_name(functions_by_id_, name_to_id_, name, args)
       IN  last' = [op |-> "call(name)", name |-> name, id |-> "", rtype |-> "",
                    args |-> args, out |-> r.out, log |-> r.log]
    /\ pc' = "returned"
    /\ UNCHANGED <<groupVars, registryVars, laterVars>>

CallAsById(T, id, args) ==
    /\ pc = "idle"
    /\ LET r == optimized_call_as(T, call_by_id(functions_by_id_, id, args))
       IN  last' = [op |-> "call_as(id)", name |-> "", id |-> id, rtype |-> T,
                    args |-> args, out |-> r.out, log |-> r.log]
    /\ pc' = "returned"
    /\ UNCHANGED <<groupVars, registryVars, laterVars>>

CallAsByName(T, name, args) ==
    /\ pc = "idle"
    /\ LET r == optimized_call_as(T, call_by_name(functions_by_id_, name_to_id_,
                                                  name, args))
       IN  last' = [op |-> "call_as(name)", name |-> name, id |-> "", rtype |-> T,
                    args |-> args, out |-> r.out, log |-> r.log]
    /\ pc' = "returned"
    /\ UNCHANGED <<groupVars, registryVars, laterVars>>

\* The ids a caller passes are FUNC_ID and std::hash of the names.
NextOptimized ==
    \/ \E name \in OptimizedNames, func \in OptimizedCallables :
          \E n \in OptimizedNames : \E id \in {hash_string(n), std_hash(n)} :
              AddById(id, name, func)
    \/ \E name \in OptimizedNames, func \in OptimizedCallables : AddByName(name, func)
    \/ \E name \in OptimizedNames, args \in OptimizedArgLists : CallByName(name, args)
    \/ \E T \in {"int", "string"}, args \in OptimizedArgLists :
          \E n \in OptimizedNames : \E id \in {hash_string(n), std_hash(n)} :
              CallAsById(T, id, args)
    \/ \E T \in {"int", "string"}, name \in OptimizedNames :
          \E args \in OptimizedArgLists : CallAsByName(T, name, args)
    \/ Return

SpecOptimized == InitRegistry /\ [][NextOptimized]_vars

(***************************************************************************)
(* The legacy FunctionRegistry: a map from group type to a FunctionGroup   *)
(* pointer the registry deletes.  deletes counts the delete expressions    *)
(* evaluated on each group object, handed is the set of non-null groups    *)
(* passed to registerGroup.                                                *)
(***************************************************************************)
MaxDeletes == 2

\* delete p.  Deleting an object that was deleted is undefined: the run
\* goes on, or the program aborts in the allocator.
delete(d, p) ==
    LET d2 == [d EXCEPT ![p] = @ + 1]
    IN  IF d[p] = 0
        THEN {[deletes |-> d2, aborted |-> FALSE]}
        ELSE {[deletes |-> d2, aborted |-> b] : b \in BOOLEAN}

\* The outcomes of registerGroup(type, group).
registerGroup(gs, d, type, group) ==
    LET stored == [t \in DOMAIN gs \cup {type} |-> IF t = type THEN group ELSE gs[t]]
    IN  IF group = NullGroup
        THEN {[groups |-> gs, deletes |-> d, aborted |-> FALSE]}
        ELSE IF type \in DOMAIN gs
        THEN {[groups |-> IF o.aborted THEN gs ELSE stored,
               deletes |-> o.deletes, aborted |-> o.aborted] : o \in delete(d, gs[type])}
        ELSE {[groups |-> stored, deletes |-> d, aborted |-> FALSE]}

\* The outcomes of unregisterGroup(type).
unregisterGroup(gs, d, type) ==
    IF type \in DOMAIN gs
    THEN {[groups |-> IF o.aborted THEN gs ELSE [t \in DOMAIN gs \ {type} |-> gs[t]],
           deletes |-> o.deletes, aborted |-> o.aborted] : o \in delete(d, gs[type])}
    ELSE {[groups |-> gs, deletes |-> d, aborted |-> FALSE]}

\* The outcomes of clear(): its loop from the i-th group type on, then
\* groups.clear().
RECURSIVE clear(_, _, _)
clear(gs, d, i) ==
    IF i > Len(GroupTypeOrder)
    THEN {[groups |-> <<>>, deletes |-> d, aborted |-> FALSE]}
    ELSE IF GroupTypeOrder[i] \notin DOMAIN gs
    THEN clear(gs, d, i + 1)
    ELSE UNION { IF o.aborted
                 THEN {[groups |-> gs, deletes |-> o.deletes, aborted |-> TRUE]}
                 ELSE clear(gs, o.deletes, i + 1)
                 : o \in delete(d, gs[GroupTypeOrder[i]]) }

\* What an outcome o of a registry operation leaves behind.
Becomes(o) ==
    /\ \A g \in GroupPointers : o.deletes[g] <= MaxDeletes
    /\ groups' = o.groups
    /\ deletes' = o.deletes
    /\ pc' = IF o.aborted THEN "aborted" ELSE "returned"

\* A client passes the null pointer or a group object that is alive.
RegisterGroup(type, group) ==
    /\ pc = "idle" /\ ~destroyed
    /\ group # NullGroup => deletes[group] = 0
    /\ \E o \in registerGroup(groups, deletes, type, group) : Becomes(o)
    /\ handed' = IF group = NullGroup THEN handed ELSE handed \cup {group}
    /\ last' = [op |-> "registerGroup", type |-> type, group |-> group, out |-> NullGroup]
    /\ UNCHANGED <<groupVars, registryVars, optimizedVars, destroyed, concreteVars,
                   functions, constrainedVars>>

GetGroup(type) ==
    /\ pc = "idle" /\ ~destroyed
    /\ last' = [op |-> "getGroup", type |-> type, group |-> NullGroup,
                out |-> IF type \in DOMAIN groups THEN groups[type] ELSE NullGroup]
    /\ pc' = "returned"
    /\ UNCHANGED <<groupVars, registryVars, laterVars>>

UnregisterGroup(type) ==
    /\ pc = "idle" /\ ~destroyed
    /\ \E o \in unregisterGroup(groups, deletes, type) : Becomes(o)
    /\ last' = [op |-> "unregisterGroup", type |-> type, group |-> NullGroup,
                out |-> NullGroup]
    /\ UNCHANGED <<groupVars, registryVars, optimizedVars, handed, destroyed,
                   concreteVars, functions, constrainedVars>>

Clear ==
    /\ pc = "idle" /\ ~destroyed
    /\ \E o \in clear(groups, deletes, 1) : Becomes(o)
    /\ last' = [op |-> "clear", type |-> "", group |-> NullGroup, out |-> NullGroup]
    /\ UNCHANGED <<groupVars, registryVars, optimizedVars, handed, destroyed,
                   concreteVars, functions, constrainedVars>>

\* ~FunctionRegistry
Destroy ==
    /\ pc = "idle" /\ ~destroyed
    /\ \E o \in clear(groups, deletes, 1) : Becomes(o)
    /\ destroyed' = TRUE
    /\ last' = [op |-> "~FunctionRegistry", type |-> "", group |-> NullGroup,
                out |-> NullGroup]
    /\ UNCHANGED <<groupVars, registryVars, optimizedVars, handed, concreteVars,
                   functions, constrainedVars>>

NextLegacyRegistry ==
    \/ \E i \in 1..Len(GroupTypeOrder), group \in GroupPointers \cup {NullGroup} :
          RegisterGroup(GroupTypeOrder[i], group)
    \/ \E i \in 1..Len(GroupTypeOrder) : GetGroup(GroupTypeOrder[i])
    \/ \E i \in 1..Len(GroupTypeOrder) : UnregisterGroup(GroupTypeOrder[i])
    \/ Clear
    \/ Destroy
    \/ Return

SpecLegacyRegistry == InitRegistry /\ [][NextLegacyRegistry]_vars

(***************************************************************************)
(* ConcreteFunctionGroup and the example functions registered in it.  A    *)
(* void* argument is the null pointer ("null"), a pointer to one value     *)
(* ("value"), a pointer to an array of two values ("array"), or a pointer  *)
(* to an array of two pointers to a value each ("pointers").  Doubles are  *)
(* whole numbers here.                                                     *)
(***************************************************************************)
Pointer(kind, v) == [kind |-> kind, v |-> v]

\* Does static_cast<T*>(p)[i - 1] read an object of type T?
Defined(p, i) == IF i = 1 THEN p.kind \in {"value", "array"} ELSE p.kind = "array"

\* static_cast<T*>(p)[i - 1]: the values the read may yield.  A read that
\* is undefined yields garbage (0 here) or aborts the program.
Deref(p, i) == IF Defined(p, i) THEN {p.v[i]} ELSE {0}

\* std::sqrt of a perfect square, pow with a natural exponent
square_root(n) == CHOOSE r \in 0..n : r * r = n
RECURSIVE pow(_, _)
pow(b, e) == IF e = 0 THEN 1 ELSE b * pow(b, e - 1)

\* static T result = v; is executed by the first call only.
InitializeOnce(st, f, v) ==
    IF st[f].init THEN st ELSE [st EXCEPT ![f] = [init |-> TRUE, v |-> v]]

\* The outcomes of the example function f called with the pointers ps: the
\* statics it leaves and whether the program aborted.
Run(f, ps, st) ==
    LET Ran(s, aborted) == [statics |-> s, aborted |-> aborted]
        Product == IF st[f].init THEN {Ran(st, FALSE)}
                   ELSE {Ran(InitializeOnce(st, f, a * b), FALSE) :
                             a \in Deref(ps[1], 1), b \in Deref(ps[1], 2)}
                        \cup (IF Defined(ps[1], 2) THEN {} ELSE {Ran(st, TRUE)})
    IN  CASE f = "add_func" -> {Ran(InitializeOnce(st, f, 5 + 3), FALSE)}
          [] f = "hello_world" -> {Ran(InitializeOnce(st, f, 1), FALSE)}
          [] f = "add_ten" ->
                {Ran(InitializeOnce(st, f, value + 10), FALSE) : value \in Deref(ps[1], 1)}
                \cup (IF Defined(ps[1], 1) THEN {} ELSE {Ran(st, TRUE)})
          [] f = "sqrt_func" ->
                {Ran(InitializeOnce(st, f, square_root(value)), FALSE) :
                     value \in Deref(ps[1], 1)}
                \cup (IF Defined(ps[1], 1) THEN {} ELSE {Ran(st, TRUE)})
          [] f = "multiply_func" -> Product
          [] f \in {"power_func", "enhanced_power"} ->
                {Ran(InitializeOnce(st, f, pow(base, exp)), FALSE) :
                     base \in Deref(ps[1], 1), exp \in Deref(ps[2], 1)}
                \cup (IF Defined(ps[1], 1) /\ Defined(ps[2], 1) THEN {}
                      ELSE {Ran(st, TRUE)})
          [] f = "enhanced_add" -> {Ran(InitializeOnce(st, f, 10 + 5), FALSE)}
          [] f = "enhanced_multiply" -> Product
          [] f = "enhanced_sum_three" ->
                {Ran(InitializeOnce(st, f, a + b + c), FALSE) :
                     a \in Deref(ps[1], 1), b \in Deref(ps[2], 1), c \in Deref(ps[3], 1)}
                \cup (IF \A i \in 1..3 : Defined(ps[i], 1) THEN {} ELSE {Ran(st, TRUE)})
          [] f = "enhanced_average_four" ->
                {Ran(InitializeOnce(st, f, (a + b + c + d) \div 4), FALSE) :
                     a \in Deref(ps[1], 1), b \in Deref(ps[2], 1), c \in Deref(ps[3], 1),
                     d \in Deref(ps[4], 1)}
                \cup (IF \A i \in 1..4 : Defined(ps[i], 1) THEN {} ELSE {Ran(st, TRUE)})

\* The outcomes of a call through a function pointer: what the caller gets
\* (the address of the static of f and the value it finds there) and the
\* invocation made.
Invoked(f, ps, st) ==
    { [statics |-> o.statics, aborted |-> o.aborted, out |-> f,
       value |-> o.statics[f].v, log |-> <<[fn |-> f, args |-> ps]>>] : o \in Run(f, ps, st) }

\* return 0
NullResult(st) ==
    { [statics |-> st, aborted |-> FALSE, out |-> "0", value |-> 0, log |-> <<>>] }

callFunction_first(f0, f1, f2, name, args, st) ==
    IF f0 # <<>>
    THEN Invoked(f0[CHOOSE n \in DOMAIN f0 : TRUE], <<>>, st)
    ELSE NullResult(st)

\* ConcreteFunctionGroup::callFunction(functionName, args).  argArray[0]
\* and argArray[1] are read from an args that points to two pointers; any
\* other args makes the reads undefined.
callFunction(f0, f1, f2, name, args, st) ==
    LET Element(i) == IF args.kind = "pointers" THEN Pointer("value", <<args.v[i]>>)
                      ELSE Pointer("null", <<>>)
    IN  IF name \in DOMAIN f0 THEN Invoked(f0[name], <<>>, st)
        ELSE IF name \in DOMAIN f1 THEN Invoked(f1[name], <<args>>, st)
        ELSE IF name \in DOMAIN f2
        THEN Invoked(f2[name], <<Element(1), Element(2)>>, st)
             \cup (IF args.kind = "pointers" THEN {}
                   ELSE {[statics |-> st, aborted |-> TRUE, out |-> "0", value |-> 0,
                          log |-> <<>>]})
        ELSE NullResult(st)

\* callFunction0, callFunction1, callFunction2 on the map fs of the
\* functions with Len(args) parameters
callFunctionN(fs, name, args, st) ==
    IF name \in DOMAIN fs THEN Invoked(fs[name], args, st) ELSE NullResult(st)

\* functionsN[name] = func
registerFunction(fs, name, func) ==
    [n \in DOMAIN fs \cup {name} |-> IF n = name THEN func ELSE fs[n]]

ConcreteNames == {"add_ten", "power"}

\* The pointers a caller passes.
ConcretePointers == {Pointer("null", <<>>), Pointer("value", <<4>>),
                     Pointer("pointers", <<4, 2>>)}

\* registerFunction0, registerFunction1, registerFunction2: k is the number
\* of parameters of func.
RegisterFunctionN(name, k, func) ==
    /\ pc = "idle"
    /\ functions0' = IF k = 0 THEN registerFunction(functions0, name, func) ELSE functions0
    /\ functions1' = IF k = 1 THEN registerFunction(functions1, name, func) ELSE functions1
    /\ functions2' = IF k = 2 THEN registerFunction(functions2, name, func) ELSE functions2
    /\ last' = [op |-> <<"registerFunction0", "registerFunction1",
                         "registerFunction2">>[k + 1],
                name |-> name, args |-> <<>>, out |-> "0", value |-> 0, log |-> <<>>]
    /\ pc' = "returned"
    /\ UNCHANGED <<groupVars, registryVars, optimizedVars, legacyVars, statics,
                   functions, constrainedVars>>

\* A call leaves the statics of its outcome, or the program has aborted.
CallFunctionByName(name, args) ==
    /\ pc = "idle"
    /\ \E o \in callFunction(functions0, functions1, functions2, name, args, statics) :
          /\ statics' = o.statics
          /\ pc' = IF o.aborted THEN "aborted" ELSE "returned"
          /\ last' = [op |-> "callFunction", name |-> name, args |-> <<args>>,
                      out |-> o.out, value |-> o.value, log |-> o.log]
    /\ UNCHANGED <<groupVars, registryVars, optimizedVars, legacyVars,
                   functions0, functions1, functions2, functions, constrainedVars>>

\* callFunction0(name), callFunction1(name, arg), callFunction2(name, arg1, arg2)
CallFunctionN(name, args) ==
    /\ pc = "idle"
    /\ \E o \in callFunctionN(<<functions0, functions1, functions2>>[Len(args) + 1],
                              name, args, statics) :
          /\ statics' = o.statics
          /\ pc' = IF o.aborted THEN "aborted" ELSE "returned"
          /\ last' = [op |-> <<"callFunction0", "callFunction1",
                               "callFunction2">>[Len(args) + 1],
                      name |-> name, args |-> args,
                      out |-> o.out, value |-> o.value, log |-> o.log]
    /\ UNCHANGED <<groupVars, registryVars, optimizedVars, legacyVars,
                   functions0, functions1, functions2, functions, constrainedVars>>

NextConcrete ==
    \/ \E name \in ConcreteNames : RegisterFunctionN(name, 0, "hello_world")
    \/ \E name \in ConcreteNames : RegisterFunctionN(name, 1, "add_ten")
    \/ \E name \in ConcreteNames : RegisterFunctionN(name, 2, "power_func")
    \/ \E name \in ConcreteNames, args \in ConcretePointers : CallFunctionByName(name, args)
    \/ \E name \in ConcreteNames : CallFunctionN(name, <<>>)
    \/ \E name \in ConcreteNames, arg \in ConcretePointers : CallFunctionN(name, <<arg>>)
    \/ \E name \in ConcreteNames, arg1 \in ConcretePointers :
          \E arg2 \in {Pointer("null", <<>>), Pointer("value", <<2>>)} :
              CallFunctionN(name, <<arg1, arg2>>)
    \/ Return

SpecConcrete == InitRegistry /\ [][NextConcrete]_vars

(***************************************************************************)
(* The group of the examples: the functions initMathFunctions registers,   *)
(* and add_ten of initSimpleFunctions, called as the main functions call   *)
(* them, with arguments of the shape each function reads.                  *)
(***************************************************************************)
InitLegacyDemo ==
    /\ impl = "simple"
    /\ functions_ = EmptyMap
    /\ lastAdded = [n \in Names |-> "none"]
    /\ overwritten = FALSE
    /\ held = NotHeld
    /\ function_implementations_ = NoImplementations
    /\ module_functions_ = NoModules
    /\ registrations = <<>>
    /\ functions_by_id_ = <<>>
    /\ name_to_id_ = <<>>
    /\ proper = TRUE
    /\ groups = <<>>
    /\ deletes = [g \in GroupPointers |-> 0]
    /\ handed = {}
    /\ destroyed = FALSE
    /\ functions0 = [n \in {"add"} |-> "add_func"]
    /\ functions1 = [n \in {"sqrt", "multiply", "add_ten"} |->
                        CASE n = "sqrt" -> "sqrt_func"
                          [] n = "multiply" -> "multiply_func"
                          [] n = "add_ten" -> "add_ten"]
    /\ functions2 = [n \in {"power"} |-> "power_func"]
    /\ statics = [f \in ExampleFunctions |-> [init |-> FALSE, v |-> 0]]
    /\ functions = <<>>
    /\ constraint = "none"
    /\ implemented_functions_ = <<>>
    /\ pc = "idle"
    /\ last = NoOperation

NextLegacyDemo ==
    \/ \E c \in {<<"add", Pointer("null", <<>>)>>}
                \cup {<<"sqrt", Pointer("value", <<v>>)>> : v \in {16, 25}}
                \cup {<<"multiply", Pointer("array", <<a, 7>>)>> : a \in {6, 2}}
                \cup {<<"power", Pointer("pointers", <<2, e>>)>> : e \in {3, 4}}
                \cup {<<"add_ten", Pointer("value", <<v>>)>> : v \in {5, 6}} :
          CallFunctionByName(c[1], c[2])
    \/ Return

SpecLegacyDemo == InitLegacyDemo /\ [][NextLegacyDemo]_vars

(***************************************************************************)
(* EnhancedFunctionGroup (C++98): a map from the name to a wrapper that    *)
(* keeps one function pointer per parameter count and the parameter count  *)
(* of the last setFunction.                                                *)
(***************************************************************************)
\* registerFunction(name, func, ...) for a func with k parameters:
\* functions[name].setFunction(func, info), on the wrapper the map holds or
\* on a new one (no pointer, actualParamCount -1).
enhanced_registerFunction(fns, name, k, func) ==
    LET w == IF name \in DOMAIN fns THEN fns[name]
             ELSE [func |-> <<"0", "0", "0", "0", "0">>, actualParamCount |-> -1,
                   info |-> [name |-> "", parameterCount |-> 0]]
        set == [func |-> [w.func EXCEPT ![k + 1] = func], actualParamCount |-> k,
                info |-> [name |-> name, parameterCount |-> k]]
    IN  [n \in DOMAIN fns \cup {name} |-> IF n = name THEN set ELSE fns[n]]

intToString(value) ==
    CASE value = -1 -> "variable number of"
      [] value = 0 -> "0"
      [] value = 1 -> "1"
      [] value = 2 -> "2"
      [] value = 3 -> "3"
      [] OTHER -> "4"

\* FunctionCallResult::createError(error)
createError(error, st) ==
    [statics |-> st, aborted |-> FALSE, success |-> FALSE, error |-> error,
     out |-> "0", value |-> 0, log |-> <<>>]

wrapper_call_unchecked(w, args, st) ==
    IF w.func[Len(args) + 1] = "0"
    THEN {createError("Function not registered", st)}
    ELSE {[statics |-> o.statics, aborted |-> o.aborted, success |-> TRUE, error |-> "",
           out |-> o.out, value |-> o.value, log |-> o.log]
              : o \in Invoked(w.func[Len(args) + 1], args, st)}

\* EnhancedFunctionWrapper::call(arg1, ..., argk); the example functions
\* throw no exception, and the result is FunctionCallResult(result, ...).
wrapper_call(w, args, st) ==
    IF w.actualParamCount # Len(args)
    THEN {createError("Function requires " \o intToString(w.actualParamCount) \o
                      (IF Len(args) = 0 THEN " parameters"
                       ELSE " parameters, got " \o intToString(Len(args))), st)}
    ELSE IF w.func[Len(args) + 1] = "0"
    THEN {createError("Function not registered", st)}
    ELSE {[statics |-> o.statics, aborted |-> o.aborted, success |-> TRUE, error |-> "",
           out |-> o.out, value |-> o.value, log |-> o.log]
              : o \in Invoked(w.func[Len(args) + 1], args, st)}

\* EnhancedFunctionGroup::callFunction(functionName, arg1, ..., argk)
enhanced_callFunction(fns, name, args, st) ==
    IF name \notin DOMAIN fns
    THEN {createError("Function not found: " \o name, st)}
    ELSE wrapper_call(fns[name], args, st)

\* The arguments of a call: pointers to doubles, none to four of them.
EnhancedArgLists ==
    {SubSeq(<<Pointer("value", <<4>>), Pointer("value", <<8>>),
              Pointer("value", <<4>>), Pointer("value", <<8>>)>>, 1, k) : k \in 0..4}

EnhancedRegisterFunction(name, k) ==
    /\ pc = "idle"
    /\ functions' = enhanced_registerFunction(functions, name, k, EnhancedFunctions[k + 1])
    /\ last' = [op |-> "registerFunction", name |-> name, args |-> <<>>,
                success |-> TRUE, error |-> "", out |-> "0", value |-> 0, log |-> <<>>]
    /\ pc' = "returned"
    /\ UNCHANGED <<groupVars, registryVars, optimizedVars, legacyVars, concreteVars,
                   constrainedVars>>

EnhancedCallFunction(name, args) ==
    /\ pc = "idle"
    /\ \E o \in enhanced_callFunction(functions, name, args, statics) :
          /\ statics' = o.statics
          /\ pc' = IF o.aborted THEN "aborted" ELSE "returned"
          /\ last' = [op |-> "callFunction", name |-> name, args |-> args,
                      success |-> o.success, error |-> o.error,
                      out |-> o.out, value |-> o.value, log |-> o.log]
    /\ UNCHANGED <<groupVars, registryVars, optimizedVars, legacyVars,
                   functions0, functions1, functions2, functions, constrainedVars>>

\* A caller registers functions of 0, 2 and 4 parameters.
NextEnhanced ==
    \/ \E name \in {"add", "power"}, k \in {0, 2, 4} : EnhancedRegisterFunction(name, k)
    \/ \E name \in {"add", "power"}, args \in EnhancedArgLists :
          EnhancedCallFunction(name, args)
    \/ Return

SpecEnhanced == InitRegistry /\ [][NextEnhanced]_vars

(***************************************************************************)
(* The constrained groups: SimpleFunctionGroup with a register_function    *)
(* meant to admit the names of a predefined interface only.                *)
(***************************************************************************)
\* The names of the predefined interface of a class: the name constants of
\* FunctionInterface<MathFunctionSet>, ALLOWED_MATH_FUNCTIONS,
\* math_interface::STANDARD_FUNCTIONS.
Interface(cls) ==
    IF cls = "ConstrainedFunctionGroup"
    THEN {"add", "multiply", "square", "power", "sqrt"}
    ELSE {"add", "subtract", "multiply", "divide", "square", "sqrt", "power", "abs"}

\* register_function(name, func) of the class cls: the map and the vector
\* it leaves, and what it returns.
constrained_register_function(cls, fs, impls, name, func) ==
    LET Registration_(fs2, impls2, out) == [fs |-> fs2, impls |-> impls2, out |-> out]
    IN  CASE cls = "ConstrainedFunctionGroup" ->
                Registration_(add(fs, name, func), Append(impls, name), NoValue)
          [] cls = "ConstrainedMathGroup" ->
                IF name \notin Interface(cls) THEN Registration_(fs, impls, BoolVal(FALSE))
                ELSE Registration_(add(fs, name, func), impls, BoolVal(TRUE))
          [] cls = "InterfaceCompliantMathGroup" ->
                IF name \notin Interface(cls) THEN Registration_(fs, impls, BoolVal(FALSE))
                ELSE Registration_(add(fs, name, func), Append(impls, name), BoolVal(TRUE))

InitConstrained ==
    /\ impl = "simple"
    /\ functions_ = EmptyMap
    /\ lastAdded = [n \in Names |-> "none"]
    /\ overwritten = FALSE
    /\ held = NotHeld
    /\ function_implementations_ = NoImplementations
    /\ module_functions_ = NoModules
    /\ registrations = <<>>
    /\ functions_by_id_ = <<>>
    /\ name_to_id_ = <<>>
    /\ proper = TRUE
    /\ groups = <<>>
    /\ deletes = [g \in GroupPointers |-> 0]
    /\ handed = {}
    /\ destroyed = FALSE
    /\ functions0 = <<>>
    /\ functions1 = <<>>
    /\ functions2 = <<>>
    /\ statics = [f \in ExampleFunctions |-> [init |-> FALSE, v |-> 0]]
    /\ functions = <<>>
    /\ constraint \in {"ConstrainedFunctionGroup", "ConstrainedMathGroup",
                       "InterfaceCompliantMathGroup"}
    /\ implemented_functions_ = <<>>
    /\ pc = "idle"
    /\ last = NoOperation

RegisterFunction(name, func) ==
    /\ pc = "idle"
    /\ Len(implemented_functions_) < MaxRegistrations
    /\ LET r == constrained_register_function(constraint, functions_,
                                              implemented_functions_, name, func)
       IN  /\ functions_' = r.fs
           /\ implemented_functions_' = r.impls
           /\ last' = Operation("register_function", name, "", <<>>, func.id,
                                Result(Returns(r.out), <<>>, functions_), functions_)
    /\ pc' = "returned"
    /\ UNCHANGED <<impl, lastAdded, overwritten, held, registryVars, optimizedVars,
                   legacyVars, concreteVars, functions, constraint>>

\* A caller uses a name of every interface and a name of none.
NextConstrained ==
    \/ \E name \in {"add", "invalid_function"} :
          \E func \in { Callable("add", <<"int", "int">>, "int"),
                        Callable("square", <<"int">>, "int") } :
              RegisterFunction(name, func)
    \/ \E name \in {"add", "invalid_function"} : HasFunction(name)
    \/ \E name \in {"add", "invalid_function"} :
          \E args \in { <<IntVal(2), IntVal(3)>>, <<IntVal(2)>> } :
              CallAs("int", name, args)
    \/ Return

SpecConstrained == InitConstrained /\ [][NextConstrained]_vars

(***************************************************************************)
(* The error causes a caller tells apart.                                  *)
(***************************************************************************)
\* std::runtime_error("Function not found: " + name)
NotFound(exc, name) ==
    exc = [type |-> "runtime_error", what |-> "Function not found: " \o name]

\* std::runtime_error raised by a wrapper that rejects the arguments
ArgumentMessages ==
    { "Function not callable with 0 arguments",
      "Cannot call function with provided argument type",
      "Cannot call function with provided argument types",
      "Functions with more than 2 arguments not yet supported" }
    \cup {"Function expects " \o ToString(k) \o " arguments" : k \in 0..2}

ArgumentMismatch(exc) == exc.type = "runtime_error" /\ exc.what \in ArgumentMessages

\* std::bad_any_cast
TypeMismatch(exc) == exc.type = "bad_any_cast"

\* The operation that just ended is a call by name of one of these kinds.
Ended(ops) == pc = "returned" /\ last.op \in ops

\* The callable the name of the ended operation was registered with.
Called == last.before[last.name]

(***************************************************************************)
(* C1  Last-write-wins: every invocation a call / call_as / try_call on a  *)
(* name makes is of the callable of the most recent add of that name, and  *)
(* every name resolves to the callable of its most recent add (an add of a *)
(* registered name is neither rejected nor ignored).                       *)
(***************************************************************************)
C1_LastWriteWins ==
    /\ \A n \in Names :
         lastAdded[n] # "none" => n \in DOMAIN functions_ /\ functions_[n].id = lastAdded[n]
    /\ Ended({"call", "call_as", "try_call"}) =>
         \A i \in 1..Len(last.log) : last.log[i].fn = lastAdded[last.name]

\* A call that invoked the callable of a name registered twice, with
\* different callables (the only registered name is the overwritten one).
C1_Witness ==
    /\ Ended({"call", "call_as", "try_call"})
    /\ overwritten
    /\ DOMAIN functions_ = {last.name}
    /\ Len(last.log) = 1
    /\ last.log[1].fn = lastAdded[last.name]

(***************************************************************************)
(* C2  Absence: when no add has registered the name, has_function is false *)
(* and call_as fails with the not-found error, whatever the requested type *)
(* and the arguments, and no callable is invoked.                          *)
(***************************************************************************)
C2_Absence ==
    \A n \in Names :
        lastAdded[n] = "none" =>
            /\ ~has_function(functions_, n)
            /\ Ended({"call_as"}) /\ last.name = n =>
                 /\ last.out.status = "throw"
                 /\ NotFound(last.out.exc, n)
                 /\ last.log = <<>>

\* call_as on an unregistered name of a group that holds another entry
C2_Witness ==
    /\ Ended({"call_as"})
    /\ lastAdded[last.name] = "none"
    /\ DOMAIN functions_ # {}
    /\ Len(last.args) = 2
    /\ last.out.status = "throw"

(***************************************************************************)
(* C3  Arity: call_as on a registered 2-parameter callable with 0, 1 or 3  *)
(* arguments fails with an argument-mismatch error and the callable is not *)
(* invoked, whatever the argument types.                                   *)
(***************************************************************************)
C3_Arity ==
    ( /\ Ended({"call_as"})
      /\ last.name \in DOMAIN last.before
      /\ Len(Called.params) = 2
      /\ Len(last.args) \in {0, 1, 3} )
    => /\ last.out.status = "throw"
       /\ ArgumentMismatch(last.out.exc)
       /\ last.log = <<>>

\* three arguments, the first two of the parameters' types, to add(int, int)
C3_Witness ==
    /\ Ended({"call_as"})
    /\ last.name \in DOMAIN last.before
    /\ Called.params = <<"int", "int">>
    /\ last.args = <<IntVal(2), IntVal(2), IntVal(2)>>
    /\ last.out.status = "throw"

(***************************************************************************)
(* The real signature of a callable, as the claims speak of it.            *)
(***************************************************************************)
\* The name of the ended operation was registered when it began.
Registered == last.name \in DOMAIN last.before

\* The arguments have the count and, position by position, the dynamic
\* types of the callable's real parameters.
ArgsMatch(c, args) ==
    /\ Len(args) = Len(c.params)
    /\ \A k \in 1..Len(args) : args[k].type = c.params[k]

\* The callable, given these arguments, returns (it raises no error).
Completes(c, args) == Body(c, args).status = "ok"

(***************************************************************************)
(* C4  No cross-type coercion in SimpleFunctionGroup: call_as with an      *)
(* argument whose dynamic type differs from the real parameter type at its *)
(* position fails with an argument-mismatch error without invoking the     *)
(* callable, and no callable ever receives a converted argument value.     *)
(* The original claim.                                                     *)
(***************************************************************************)
C4_NoCoercion ==
    /\ ( /\ Ended({"call_as"})
         /\ impl = "simple"
         /\ Registered
         /\ Len(last.args) = Len(Called.params)
         /\ \E k \in 1..Len(last.args) : last.args[k].type # Called.params[k] )
       => /\ last.out.status = "throw"
          /\ ArgumentMismatch(last.out.exc)
          /\ last.log = <<>>
    /\ Ended({"call", "call_as", "try_call"}) /\ impl = "simple" =>
         \A i \in 1..Len(last.log) : last.log[i].received = last.log[i].supplied

(***************************************************************************)
(* C5  Type invariant: call_as<string> on a registered (int,int)->int      *)
(* callable with two int arguments fails with the type-mismatch error,     *)
(* after the callable was invoked exactly once with the supplied arguments *)
(* and returned.                                                           *)
(***************************************************************************)
C5_TypeInvariant ==
    ( /\ Ended({"call_as"})
      /\ Registered
      /\ last.rtype = "string"
      /\ Called.params = <<"int", "int">>
      /\ Called.ret = "int"
      /\ ArgsMatch(Called, last.args) )
    => /\ last.out.status = "throw"
       /\ TypeMismatch(last.out.exc)
       /\ last.log = <<Invocation(Called, last.args, last.args)>>
       /\ Completes(Called, last.args)

\* call_as<string>("f", 2, 2) with add registered under "f"
C5_Witness ==
    /\ Ended({"call_as"})
    /\ Registered
    /\ last.rtype = "string"
    /\ Called.id = "add"
    /\ last.args = <<IntVal(2), IntVal(2)>>
    /\ Len(last.log) = 1

(***************************************************************************)
(* C6  Invocation contract: call_as with arguments of exactly the real     *)
(* parameter count and types, requesting the real return type, does not    *)
(* fail: the callable is invoked once with those arguments and its result  *)
(* is returned (for a callable that itself returns).  The original claim.  *)
(***************************************************************************)
C6_InvocationContract ==
    ( /\ Ended({"call_as"})
      /\ Registered
      /\ ArgsMatch(Called, last.args)
      /\ last.rtype = Called.ret
      /\ Completes(Called, last.args) )
    => /\ last.out = Returns(Body(Called, last.args).val)
       /\ last.log = <<Invocation(Called, last.args, last.args)>>

(***************************************************************************)
(* C7  Failure isolation: a call_as that raises an error, and a try_call   *)
(* that yields no value, leave the map as it was: function_names and       *)
(* has_function answer as before and every entry is the same callable.     *)
(***************************************************************************)
C7_FailureIsolation ==
    ( /\ Ended({"call_as", "try_call"})
      /\ \/ last.out.status = "throw"
         \/ last.op = "try_call" /\ ~last.out.has )
    => /\ functions_ = last.before
       /\ function_names(functions_) = function_names(last.before)
       /\ \A n \in Names : has_function(functions_, n) = has_function(last.before, n)

\* the callable itself raised an error, in a group with a second entry
C7_Witness ==
    /\ Ended({"call_as"})
    /\ Registered
    /\ Called.id = "checked"
    /\ Len(last.log) = 1
    /\ last.out.status = "throw"
    /\ last.out.exc.type = "invalid_argument"
    /\ Cardinality(DOMAIN last.before) = 2

(***************************************************************************)
(* C8  No internal retries in SimpleFunctionGroup: one call, call_as or    *)
(* try_call invokes the stored callable at most once.  The original claim. *)
(***************************************************************************)
C8_NoRetry ==
    Ended({"call", "call_as", "try_call"}) /\ impl = "simple" => Len(last.log) <= 1

(***************************************************************************)
(* C9  call_as of SimpleFunctionGroup fails loudly and specifically: it    *)
(* raises the not-found error when the name is absent, an argument-        *)
(* mismatch error when the arguments differ in count or type from the real *)
(* parameters, and the type-mismatch error when the arguments fit, the     *)
(* callable returned and the requested (non-void) type is not the real     *)
(* return type; it returns normally in none of these cases.                *)
(* The original claim.                                                     *)
(***************************************************************************)
C9_SpecificErrors ==
    Ended({"call_as"}) /\ impl = "simple" =>
        LET threw == last.out.status = "throw"
        IN  /\ ~Registered => threw /\ NotFound(last.out.exc, last.name)
            /\ Registered /\ ~ArgsMatch(Called, last.args) =>
                 threw /\ ArgumentMismatch(last.out.exc)
            /\ ( /\ Registered
                 /\ ArgsMatch(Called, last.args)
                 /\ Completes(Called, last.args)
                 /\ last.rtype \notin {"void", Called.ret} )
               => threw /\ TypeMismatch(last.out.exc)

(***************************************************************************)
(* C10  try_call<T>, T not void, never propagates an error; it yields      *)
(* nullopt when the name is not registered, when the arguments do not      *)
(* match the callable's parameters, and when T is not its return type; it  *)
(* yields the value call_as<T> returns when that call succeeds.            *)
(* The original claim.                                                     *)
(***************************************************************************)
C10_TryCall ==
    Ended({"try_call"}) /\ last.rtype # "void" =>
        LET same == call_as(impl, last.before, last.rtype, last.name, last.args)
        IN  /\ last.out.status = "ok"
            /\ ~Registered => last.out = Nullopt
            /\ Registered /\ ~ArgsMatch(Called, last.args) => last.out = Nullopt
            /\ Registered /\ last.rtype # Called.ret => last.out = Nullopt
            /\ same.out.status = "ok" => last.out = Optional(same.out.val)

(***************************************************************************)
(* C11  Void contract: try_call<void> on a registered ()->void callable    *)
(* yields a result that indicates success: no failing try_call<void> (name *)
(* absent, arguments rejected, or callable raising) yields that result.    *)
(* The original claim.                                                     *)
(***************************************************************************)
C11_VoidContract ==
    Ended({"try_call"}) /\ last.rtype = "void" =>
        LET hello == Callable("hello_world", <<>>, "void")
            success == try_call(impl, add(EmptyMap, "f", hello), "void", "f", <<>>).out
            failed == call(impl, last.before, last.name, last.args).out.status = "throw"
        IN  failed => last.out # success

(***************************************************************************)
(* C12  call_as<T>, T not void, on a registered void-returning callable    *)
(* never returns a value: it raises an error, and when the arguments are   *)
(* those the callable takes it raises the type-mismatch error after the    *)
(* callable ran once.                                                      *)
(***************************************************************************)
C12_VoidCallableTyped ==
    ( /\ Ended({"call_as"})
      /\ Registered
      /\ Called.ret = "void"
      /\ last.rtype # "void" )
    => /\ last.out.status = "throw"
       /\ ArgsMatch(Called, last.args) =>
            /\ TypeMismatch(last.out.exc)
            /\ last.log = <<Invocation(Called, last.args, last.args)>>
            /\ Completes(Called, last.args)

\* call_as<int>("g") with hello_world registered under "g"
C12_Witness ==
    /\ Ended({"call_as"})
    /\ Registered
    /\ Called.id = "hello_world"
    /\ last.rtype = "int"
    /\ last.args = <<>>
    /\ Len(last.log) = 1
    /\ TypeMismatch(last.out.exc)

(***************************************************************************)
(* C13  call_as<void> on a registered callable whose real return type is   *)
(* not void, with the arguments the callable takes, fails with the         *)
(* type-mismatch error.  The original claim.                               *)
(***************************************************************************)
C13_VoidRequested ==
    ( /\ Ended({"call_as"})
      /\ Registered
      /\ last.rtype = "void"
      /\ Called.ret # "void"
      /\ ArgsMatch(Called, last.args)
      /\ Completes(Called, last.args) )
    => /\ last.out.status = "throw"
       /\ TypeMismatch(last.out.exc)

(***************************************************************************)
(* C14  has_function is exact and pure: after any sequence of add, call,   *)
(* call_as and try_call, has_function(n) answers true exactly when some    *)
(* add(n, .) has been performed, and it changes nothing in the group.      *)
(***************************************************************************)
C14_HasFunctionExact ==
    /\ \A n \in Names : has_function(functions_, n) <=> lastAdded[n] # "none"
    /\ Ended({"has_function"}) =>
         /\ last.out = Returns(BoolVal(lastAdded[last.name] # "none"))
         /\ functions_ = last.before
         /\ last.log = <<>>

\* has_function answers false for the one name no add has registered, in a
\* group whose other name was registered twice
C14_Witness ==
    /\ Ended({"has_function"})
    /\ last.out = Returns(BoolVal(FALSE))
    /\ overwritten
    /\ Cardinality(DOMAIN functions_) = 1

(***************************************************************************)
(* C15  function_names() returns exactly the registered names, each once   *)
(* and no other name (a name registered again is listed once), and the     *)
(* vector a caller got stays as it was when later adds change the group.   *)
(***************************************************************************)
C15_FunctionNames ==
    /\ held.taken =>
         /\ {held.names[i] : i \in 1..Len(held.names)} = held.registered
         /\ Len(held.names) = Cardinality(held.registered)
    /\ Ended({"function_names"}) =>
         /\ \A n \in Names :
              has_function(functions_, n) <=> \E i \in 1..Len(held.names) : held.names[i] = n
         /\ functions_ = last.before

\* the caller holds the list <<"f">> of a group that an add of "g" has
\* changed since, and in which a name was registered twice
C15_Witness ==
    /\ held.taken
    /\ held.names = <<"f">>
    /\ DOMAIN functions_ = {"f", "g"}
    /\ overwritten

(***************************************************************************)
(* C16  call_as returns exactly the callable's result: with add registered *)
(* call_as<int>(., 15, 25) returns 40; with the greet that returns         *)
(* "Hello, " + name registered call_as<string>(., "World") returns         *)
(* "Hello, World"; for every (int,int)->int and (string)->string callable  *)
(* called with arguments of its parameter types, the value returned is the *)
(* callable's result on those arguments, which it received in the order    *)
(* the caller gave them, in one invocation.                                *)
(***************************************************************************)
C16_ExactResult ==
    Ended({"call_as"}) /\ Registered =>
        /\ ( /\ Called.id = "add"
             /\ last.rtype = "int"
             /\ last.args = <<IntVal(15), IntVal(25)>> )
           => last.out = Returns(IntVal(40))
        /\ ( /\ Called.id = "subtract"
             /\ last.rtype = "int"
             /\ last.args = <<IntVal(15), IntVal(25)>> )
           => last.out = Returns(IntVal(-10))
        /\ ( /\ Called.id = "greet_lambda"
             /\ last.rtype = "string"
             /\ last.args = <<StringVal("World")>> )
           => last.out = Returns(StringVal("Hello, World"))
        /\ ( /\ \/ Called.params = <<"int", "int">> /\ Called.ret = "int"
                \/ Called.params = <<"string">> /\ Called.ret = "string"
             /\ ArgsMatch(Called, last.args)
             /\ last.rtype = Called.ret
             /\ Completes(Called, last.args) )
           => /\ last.out = Returns(Body(Called, last.args).val)
              /\ last.log = <<Invocation(Called, last.args, last.args)>>

\* call_as<int>("add", 15, 25) answered 40, in a group that also holds a
\* greet
C16_Witness ==
    /\ Ended({"call_as"})
    /\ last.name = "add"
    /\ Registered
    /\ Called.id = "add"
    /\ last.args = <<IntVal(15), IntVal(25)>>
    /\ last.out = Returns(IntVal(40))
    /\ "greet" \in DOMAIN functions_
    /\ functions_["greet"].id = "greet_lambda"

Providers == SelectSeq(registrations, LAMBDA r : r.id = last.id)
Mine == SelectSeq(Providers, LAMBDA r : r.module = last.module)

\* The least position of a non-empty set of positions.
First(S) == CHOOSE i \in S : \A j \in S : i <= j

\* Trying the callable with these arguments for the type R completes without
\* error: the arguments are those it takes, it returns, and it returns an R.
Succeeds(c, R, args) == ArgsMatch(c, args) /\ Completes(c, args) /\ c.ret = R

(***************************************************************************)
(* C18  Module selection: when several modules registered the same         *)
(* function id, in any order, call_function<R>(m, id, args...) invokes the *)
(* implementation that module m registered for id and no other, once, and  *)
(* returns its result.                                                     *)
(***************************************************************************)
C18_ModuleSelection ==
    Ended({"call_function"}) /\ Mine # <<>> =>
        LET c == Mine[1].fn
        IN  /\ \A i \in 1..Len(last.log) : last.log[i].fn = c.id
            /\ ArgsMatch(c, last.args) =>
                 last.log = <<Invocation(c, last.args, last.args)>>
            /\ Succeeds(c, last.rtype, last.args) =>
                 last.out = Optional(Body(c, last.args).val)

\* the module registered the function id after another module did, and its
\* implementation ran and gave the result
C18_Witness ==
    /\ Ended({"call_function"})
    /\ Len(Providers) >= 2
    /\ Providers[1].module # last.module
    /\ Mine # <<>>
    /\ Succeeds(Providers[1].fn, last.rtype, last.args)
    /\ last.log = <<Invocation(Mine[1].fn, last.args, last.args)>>
    /\ last.out.has

(***************************************************************************)
(* C19  call_function_any<R>(id, args...) uses the first available         *)
(* implementation: the implementations of id are tried in registration     *)
(* order, the result of the first one that completes without error is      *)
(* returned and no later one is invoked; nullopt results only when no      *)
(* implementation is registered for id or every one fails.  Trying an      *)
(* implementation is invoking it and taking its result as an R.            *)
(***************************************************************************)
C19_FirstAvailable ==
    Ended({"call_function_any"}) =>
        LET ok == {i \in 1..Len(Providers) :
                      Succeeds(Providers[i].fn, last.rtype, last.args)}
            tried == IF ok = {} THEN Providers ELSE SubSeq(Providers, 1, First(ok))
            ran == SelectSeq(tried, LAMBDA r : ArgsMatch(r.fn, last.args))
        IN  /\ last.out.has <=> ok # {}
            /\ ok # {} => last.out = Optional(Body(Providers[First(ok)].fn, last.args).val)
            /\ last.log = [i \in 1..Len(ran) |-> Invocation(ran[i].fn, last.args, last.args)]

\* the first implementation raised an error, the second gave the result and
\* the third was not invoked
C19_Witness ==
    /\ Ended({"call_function_any"})
    /\ Len(Providers) = 3
    /\ ArgsMatch(Providers[1].fn, last.args)
    /\ ~Completes(Providers[1].fn, last.args)
    /\ Succeeds(Providers[3].fn, last.rtype, last.args)
    /\ Len(last.log) = 2
    /\ last.log[2].fn = Providers[2].fn.id
    /\ last.out.has

(***************************************************************************)
(* C20  call_function<R>(m, id, args...) returns nullopt and invokes       *)
(* nothing when module m has registered nothing or has not registered id,  *)
(* also when other modules registered id.                                  *)
(***************************************************************************)
C20_NoImplementation ==
    Ended({"call_function"}) /\ Mine = <<>> =>
        /\ last.out = Nullopt
        /\ last.log = <<>>

\* the module registered another function id, and another module registered
\* an implementation of this id that takes the arguments
C20_Witness ==
    /\ Ended({"call_function"})
    /\ Mine = <<>>
    /\ \E i \in 1..Len(registrations) : registrations[i].module = last.module
    /\ Providers # <<>>
    /\ Succeeds(Providers[1].fn, last.rtype, last.args)
    /\ last.out = Nullopt

(***************************************************************************)
(* The callable the adds of an OptimizedFunctionGroup registered last      *)
(* under a name.                                                           *)
(***************************************************************************)
LastRegistered(n) == CHOOSE c \in OptimizedCallables : c.id = lastAdded[n]

(***************************************************************************)
(* C21  The string-name API and the FUNC_ID API of OptimizedFunctionGroup  *)
(* are fully compatible: for a name registered through add(name, f) or     *)
(* add(FUNC_ID(name), name, f), call_as<R>(name, args...) and              *)
(* call_as<R>(FUNC_ID(name), args...) both succeed (R the return type, the *)
(* arguments those the callable takes), invoke the callable registered     *)
(* under the name and return its result.  The original claim.              *)
(***************************************************************************)
C21_CompatibleAPIs ==
    \A n \in OptimizedNames :
        ( /\ proper
          /\ Ended({"call_as(id)", "call_as(name)"})
          /\ last.name = n \/ last.id = hash_string(n)
          /\ n \in DOMAIN lastAdded /\ lastAdded[n] # "none"
          /\ ArgsMatch(LastRegistered(n), last.args)
          /\ last.rtype = LastRegistered(n).ret )
        => /\ last.out = Returns(Body(LastRegistered(n), last.args).val)
           /\ last.log = <<Invocation(LastRegistered(n), last.args, last.args)>>

(***************************************************************************)
(* C27  Entry isolation in OptimizedFunctionGroup: after any adds, by id   *)
(* and name or by name, a name resolves to the callable most recently      *)
(* registered under it (registering another name, with whatever id, does   *)
(* not change that), and call(n, ...) invokes that callable.               *)
(* The original claim.                                                     *)
(***************************************************************************)
C27_EntryIsolation ==
    /\ \A n \in OptimizedNames :
         (n \in DOMAIN lastAdded /\ lastAdded[n] # "none") =>
            /\ n \in DOMAIN name_to_id_
            /\ name_to_id_[n] \in DOMAIN functions_by_id_
            /\ functions_by_id_[name_to_id_[n]].id = lastAdded[n]
    /\ Ended({"call(name)"}) =>
         \A i \in 1..Len(last.log) : last.log[i].fn = lastAdded[last.name]

(***************************************************************************)
(* C22  The legacy FunctionRegistry manages the memory of its groups:      *)
(* whatever registerGroup, unregisterGroup and clear calls were made, also *)
(* with a group pointer registered again under the same or another type,   *)
(* no group is deleted twice, getGroup never returns a deleted group, and  *)
(* once the registry is destroyed every group handed to registerGroup was  *)
(* deleted exactly once.  The original claim.                              *)
(***************************************************************************)
C22_GroupMemory ==
    /\ \A g \in GroupPointers : deletes[g] <= 1
    /\ destroyed => \A g \in handed : deletes[g] = 1
    /\ (Ended({"getGroup"}) /\ last.out # NullGroup) => deletes[last.out] = 0

(***************************************************************************)
(* The maps of a ConcreteFunctionGroup a call by name looks into, and the  *)
(* function the call resolves to.                                          *)
(***************************************************************************)
Searched ==
    CASE last.op = "callFunction" -> <<functions0, functions1, functions2>>
      [] last.op = "callFunction0" -> <<functions0>>
      [] last.op = "callFunction1" -> <<functions1>>
      [] last.op = "callFunction2" -> <<functions2>>

ConcreteCalls == {"callFunction", "callFunction0", "callFunction1", "callFunction2"}

(***************************************************************************)
(* C23  ConcreteFunctionGroup::callFunction returns null and invokes       *)
(* nothing when the name is in none of the three arity maps; callFunction0 *)
(* / 1 / 2 return null and invoke nothing when the name is not registered  *)
(* with that arity; a call invokes at most one function, one registered    *)
(* under the name of the call in a map the call looks into.                *)
(***************************************************************************)
C23_NullOnAbsence ==
    Ended(ConcreteCalls) =>
        /\ (\A i \in 1..Len(Searched) : last.name \notin DOMAIN Searched[i])
              => (last.out = "0" /\ last.log = <<>>)
        /\ Len(last.log) <= 1
        /\ \A k \in 1..Len(last.log) :
              \E i \in 1..Len(Searched) :
                  /\ last.name \in DOMAIN Searched[i]
                  /\ Searched[i][last.name] = last.log[k].fn

\* A call of a name no map the call looks into holds, in a group that
\* holds a function under another name or another arity, returned null.
C23_Witness ==
    /\ Ended(ConcreteCalls)
    /\ \A i \in 1..Len(Searched) : last.name \notin DOMAIN Searched[i]
    /\ last.op = "callFunction"
    /\ functions0 # <<>> /\ functions1 # <<>> /\ functions2 # <<>>
    /\ last.out = "0" /\ last.log = <<>>

(***************************************************************************)
(* The result of an example function for the arguments of a call.          *)
(***************************************************************************)
Expected(name, args) ==
    CASE name = "add_ten" -> args.v[1] + 10
      [] name = "sqrt" -> square_root(args.v[1])
      [] name = "multiply" -> args.v[1] * args.v[2]
      [] name = "power" -> pow(args.v[1], args.v[2])

(***************************************************************************)
(* C26  Every call of add_ten, multiply, sqrt or power through             *)
(* ConcreteFunctionGroup::callFunction returns a pointer to the result     *)
(* computed from the arguments of that call, never to the value of an      *)
(* earlier call.  The original claim.                                      *)
(***************************************************************************)
C26_ResultOfThisCall ==
    (Ended({"callFunction"}) /\ last.name \in {"add_ten", "sqrt", "multiply", "power"})
        => /\ last.out # "0"
           /\ last.value = Expected(last.name, last.args[1])

(***************************************************************************)
(* C24  EnhancedFunctionGroup::callFunction returns an error result and    *)
(* invokes nothing when the name is not registered or when the number of   *)
(* arguments passed (0 to 4) differs from the parameter count the name was *)
(* registered with; it succeeds only after invoking the function           *)
(* registered last under the name, once, with exactly that many arguments. *)
(***************************************************************************)
C24_ParameterCount ==
    Ended({"callFunction"}) =>
        /\ (last.name \notin DOMAIN functions
              \/ functions[last.name].info.parameterCount # Len(last.args))
              => (~last.success /\ last.log = <<>>)
        /\ last.success =>
              /\ last.name \in DOMAIN functions
              /\ Len(last.args) = functions[last.name].info.parameterCount
              /\ last.log = <<[fn |-> EnhancedFunctions[Len(last.args) + 1],
                               args |-> last.args]>>

\* power was registered with two parameters after it had been registered
\* with none, and callFunction("power") without arguments got the error.
C24_Witness ==
    /\ Ended({"callFunction"})
    /\ last.name \in DOMAIN functions
    /\ functions[last.name].info.parameterCount = 2
    /\ functions[last.name].func[1] # "0"
    /\ last.args = <<>>
    /\ ~last.success /\ last.log = <<>>
    /\ last.error = "Function requires 2 parameters"

(***************************************************************************)
(* C25  The constrained groups only admit the functions of their           *)
(* predefined interface: register_function with a name outside of it       *)
(* registers nothing (has_function stays false, a call finds no function   *)
(* and invokes nothing), with a name inside it makes the name callable;    *)
(* register_function of ConstrainedMathGroup and of                        *)
(* InterfaceCompliantMathGroup returns false exactly when it rejects.      *)
(* The original claim.                                                     *)
(***************************************************************************)
C25_InterfaceOnly ==
    /\ \A n \in DOMAIN functions_ : n \in Interface(constraint)
    /\ Ended({"register_function"}) =>
          /\ last.name \notin Interface(constraint) => functions_ = last.before
          /\ last.name \in Interface(constraint) =>
                (has_function(functions_, last.name) /\ functions_[last.name].id = last.fn)
          /\ constraint # "ConstrainedFunctionGroup" =>
                (last.out = Returns(BoolVal(FALSE)) <=> last.name \notin Interface(constraint))
    /\ (Ended({"has_function"}) /\ last.name \notin Interface(constraint)) =>
          last.out = Returns(BoolVal(FALSE))
    /\ (Ended({"call_as"}) /\ last.name \notin Interface(constraint)) =>
          (NotFound(last.out.exc, last.name) /\ last.log = <<>>)

(***************************************************************************)
(* The elements of a vector.                                               *)
(***************************************************************************)
Elements(v) == {v[i] : i \in 1..Len(v)}

(***************************************************************************)
(* C28  Tracking consistency of MultiModuleFunctionRegistry: after any     *)
(* register_function calls, module_has_function(m, f) holds exactly when m *)
(* is among get_function_providers(f), and exactly when f is among         *)
(* get_module_functions(m); get_all_modules() is exactly the set of the    *)
(* modules that registered at least one function.                          *)
(***************************************************************************)
C28_Tracking ==
    /\ \A m \in Modules, f \in FunctionIds :
          /\ module_has_function(function_implementations_, m, f)
                <=> m \in Elements(get_function_providers(function_implementations_, f))
          /\ module_has_function(function_implementations_, m, f)
                <=> f \in Elements(get_module_functions(module_functions_, m))
          /\ module_has_function(function_implementations_, m, f)
                <=> \E i \in 1..Len(registrations) :
                       registrations[i].module = m /\ registrations[i].id = f
    /\ Elements(get_all_modules(module_functions_))
          = {registrations[i].module : i \in 1..Len(registrations)}
    /\ Len(get_all_modules(module_functions_))
          = Cardinality({registrations[i].module : i \in 1..Len(registrations)})

\* Both modules registered, ADD is provided by both and SQUARE by one of
\* them only, and module_has_function just answered false.
C28_Witness ==
    /\ Ended({"module_has_function"})
    /\ last.result = FALSE
    /\ Len(registrations) = 3
    /\ Len(get_function_providers(function_implementations_, "ADD")) = 2
    /\ Len(get_all_modules(module_functions_)) = 2
    /\ Len(get_function_providers(function_implementations_, "SQUARE")) = 1

====
